---- MODULE Spec2Model ----
(***************************************************************************)
(* Monthly-Summary-Generator: AutoSummary.py (GUI driver and window        *)
(* resolver), SGSData.py (SGS tables and graphs over a 6-month lookback)   *)
(* and FlowData.py (flow tables, exceedances and threshold summary).       *)
(***************************************************************************)
EXTENDS Integers, Sequences, FiniteSets, TLC

VARIABLES
    \* ---- window resolver (AutoSummary.previous_visit_month / months_between_inclusive)
    visit_list,      \* the schedule handed to previous_visit_month
    current_month,   \* the target month name
    prev_visit,      \* result of previous_visit_month ("None" = Python None)
    span_months,     \* result of the window computation
    rstep,           \* "input" | "prev" | "span" | "off"
    \* ---- the report documents on disk, one per output path
    docs,
    \* ---- the SGSData.py process (main and its per-sheet loop)
    sgs_pc,          \* "idle" | "start" | "sheets" | "save" | "exited"
    sgs_wb,          \* the workbook: sequence of [name, ws]
    sgs_csv,         \* argv[2], the months_csv text
    sgs_year,        \* argv[3]
    sgs_out,         \* argv[4], the output path (index into docs)
    sgs_doc,         \* the document held in memory
    sgs_i,           \* position of the sheet loop
    any_done,
    first_section,
    sgs_results,     \* per visited sheet: [i, ok, scan, before, after]
    \* ---- the FlowData.py process (main and its loop over the months)
    flow_pc,         \* "idle" | "start" | "months" | "exited"
    flow_wb,         \* the workbook: sequence of [name, ws]
    flow_site,       \* excel_path.stem
    flow_csv,        \* argv[2], the months_csv text
    flow_todo,       \* sorted(months) still to be processed
    flow_year,       \* argv[3]
    flow_out,        \* argv[4], the output path (index into docs)
    flow_doc,        \* the document held in memory
    flow_peak,       \* peak_capacity
    flow_results,    \* per sheet handed to sheet_to_word_table: [m, name, scan, before, after]
    flow_lookups,    \* per month of the loop: [m, year, target, found]
    \* ---- the AutoSummary GUI and run_summary
    selected_month,  \* 0 = None
    selected_year,   \* 0 = None
    sites,           \* load_sites(): sequence of [site, person, months, wb]
    run_pc,          \* "gui" | "sites" | "spawn_sgs" | "wait_sgs" | "wait_flow" | "pdf" | "done" | "off"
    site_i,          \* position of the loop over the sites
    processed_any,
    span_csv,        \* months_csv of the site being processed
    msg,             \* the last message box
    pdfs,            \* per export: [site, doc, saved]
    events,          \* what has happened, in order: [site, ev]
    \* ---- SGSData.ym_add applied to a month and then back again
    ym_year,         \* the year handed to the first call
    ym_month,        \* the month handed to the first call
    ym_delta,        \* the delta of the first call; the second call takes -delta
    ym_there,        \* result of ym_add(year, month, delta)
    ym_back,         \* result of ym_add on ym_there with -delta
    ym_pc            \* "input" | "there" | "back" | "off"

resolverVars == <<visit_list, current_month, prev_visit, span_months, rstep>>

sgsVars == <<sgs_pc, sgs_wb, sgs_csv, sgs_year, sgs_out, sgs_doc, sgs_i, any_done,
             first_section, sgs_results>>

flowVars == <<flow_pc, flow_wb, flow_site, flow_csv, flow_todo, flow_year, flow_out, flow_doc,
              flow_peak, flow_results, flow_lookups>>

guiVars == <<selected_month, selected_year, sites, run_pc, site_i, processed_any,
             span_csv, msg, pdfs>>

ymVars == <<ym_year, ym_month, ym_delta, ym_there, ym_back, ym_pc>>

vars == <<resolverVars, docs, sgsVars, flowVars, guiVars, events, ymVars>>

-----------------------------------------------------------------------------
(* Bounds of the model *)

MaxSchedLen == 3

\* sheets per workbook in the structural cases of the SGS pass
MaxSheets == 2

-----------------------------------------------------------------------------
(* Python strings are sequences of one-character strings *)

UPPER == <<"A","B","C","D","E","F","G","H","I","J","K","L","M",
           "N","O","P","Q","R","S","T","U","V","W","X","Y","Z">>

LOWER == <<"a","b","c","d","e","f","g","h","i","j","k","l","m",
           "n","o","p","q","r","s","t","u","v","w","x","y","z">>

DIGITS == <<"0","1","2","3","4","5","6","7","8","9">>

UpperSet == {UPPER[i] : i \in 1..26}
LowerSet == {LOWER[i] : i \in 1..26}
DigitSet == {DIGITS[i] : i \in 1..10}

IsUpper(c) == c \in UpperSet
IsLower(c) == c \in LowerSet
IsDigit(c) == c \in DigitSet
IsSpace(c) == c \in {" ", "\t", "\n"}

ToLower == [c \in UpperSet |-> LOWER[CHOOSE i \in 1..26 : UPPER[i] = c]]
ToUpper == [c \in LowerSet |-> UPPER[CHOOSE i \in 1..26 : LOWER[i] = c]]

LowerChar(c) == IF c \in UpperSet THEN ToLower[c] ELSE c
UpperChar(c) == IF c \in LowerSet THEN ToUpper[c] ELSE c

\* str.lower()
Lower(s) == [i \in 1..Len(s) |-> LowerChar(s[i])]

\* s[:n]
Take(s, n) == SubSeq(s, 1, IF n < Len(s) THEN n ELSE Len(s))

\* s[-n:]
LastN(s, n) == SubSeq(s, IF Len(s) > n THEN Len(s) - n + 1 ELSE 1, Len(s))

\* str.title() of a single word: first letter upper case, the rest lower case
Title(s) == [i \in 1..Len(s) |->
               IF i = 1 \/ ~(IsUpper(s[i - 1]) \/ IsLower(s[i - 1]))
               THEN UpperChar(s[i]) ELSE LowerChar(s[i])]

\* str.strip()
Strip(s) ==
    IF \A i \in 1..Len(s) : IsSpace(s[i]) THEN <<>>
    ELSE LET a == CHOOSE i \in 1..Len(s) :
                     ~IsSpace(s[i]) /\ \A j \in 1..(i - 1) : IsSpace(s[j])
             b == CHOOSE i \in 1..Len(s) :
                     ~IsSpace(s[i]) /\ \A j \in (i + 1)..Len(s) : IsSpace(s[j])
         IN  SubSeq(s, a, b)

\* sub in s
Contains(s, sub) ==
    \E i \in 0..(Len(s) - Len(sub)) : SubSeq(s, i + 1, i + Len(sub)) = sub

\* s.startswith(p)
StartsWith(s, p) == Len(p) <= Len(s) /\ SubSeq(s, 1, Len(p)) = p

\* str(n) for an int n >= 0
RECURSIVE StrOfNat(_)
StrOfNat(n) == IF n < 10 THEN <<DIGITS[n + 1]>>
               ELSE StrOfNat(n \div 10) \o <<DIGITS[(n % 10) + 1]>>

\* str.isdigit()
IsDigitStr(s) == Len(s) > 0 /\ \A i \in 1..Len(s) : IsDigit(s[i])

DigitValue == [c \in DigitSet |-> (CHOOSE i \in 1..10 : DIGITS[i] = c) - 1]

DigitVal(c) == DigitValue[c]

\* int(s) of a digit string
RECURSIVE IntOfDigits(_)
IntOfDigits(s) == IF Len(s) = 0 THEN 0
                  ELSE 10 * IntOfDigits(SubSeq(s, 1, Len(s) - 1)) + DigitVal(s[Len(s)])

\* ",".join(parts)
RECURSIVE JoinComma(_)
JoinComma(parts) ==
    IF Len(parts) = 0 THEN <<>>
    ELSE IF Len(parts) = 1 THEN parts[1]
    ELSE parts[1] \o <<",">> \o JoinComma(Tail(parts))

\* s.split(",")
RECURSIVE SplitComma(_)
SplitComma(s) ==
    IF \A i \in 1..Len(s) : s[i] # "," THEN <<s>>
    ELSE LET k == CHOOSE i \in 1..Len(s) : s[i] = "," /\ \A j \in 1..(i - 1) : s[j] # ","
         IN  <<SubSeq(s, 1, k - 1)>> \o SplitComma(SubSeq(s, k + 1, Len(s)))

-----------------------------------------------------------------------------
(* AutoSummary.py: calendar tables *)

January == <<"J", "a", "n", "u", "a", "r", "y">>
February == <<"F", "e", "b", "r", "u", "a", "r", "y">>
March == <<"M", "a", "r", "c", "h">>
April == <<"A", "p", "r", "i", "l">>
May == <<"M", "a", "y">>
June == <<"J", "u", "n", "e">>
July == <<"J", "u", "l", "y">>
August == <<"A", "u", "g", "u", "s", "t">>
September == <<"S", "e", "p", "t", "e", "m", "b", "e", "r">>
October == <<"O", "c", "t", "o", "b", "e", "r">>
November == <<"N", "o", "v", "e", "m", "b", "e", "r">>
December == <<"D", "e", "c", "e", "m", "b", "e", "r">>

MONTHS_FULL ==
    <<January, February, March, April, May, June,
      July, August, September, October, November, December>>

MonthNames == {MONTHS_FULL[i] : i \in 1..12}

MONTH_TO_NUM(m) == CHOOSE i \in 1..12 : MONTHS_FULL[i] = m

NUM_TO_MONTH(i) == MONTHS_FULL[i]

\* Python's None, for the str | None results
PyNone == <<"<None>">>

\* Python truthiness of a str | None value
Truthy(v) == v # PyNone /\ v # <<>>

-----------------------------------------------------------------------------
(* AutoSummary.py: window resolver *)

\* the while-loop of months_between_inclusive, from month number i up to end
RECURSIVE WalkMonths(_, _)
WalkMonths(i, end) ==
    IF i = end
    THEN <<NUM_TO_MONTH(i)>>
    ELSE <<NUM_TO_MONTH(i)>> \o WalkMonths(IF i = 12 THEN 1 ELSE i + 1, end)

months_between_inclusive(prev_month, curr_month) ==
    WalkMonths(MONTH_TO_NUM(prev_month), MONTH_TO_NUM(curr_month))

\* list.index: 1-based position of the first occurrence, 0 when absent (ValueError)
ListIndex(list, x) ==
    IF \E i \in 1..Len(list) : list[i] = x
    THEN CHOOSE i \in 1..Len(list) :
            /\ list[i] = x
            /\ \A j \in 1..(i - 1) : list[j] # x
    ELSE 0

\* faulty variant: takes the following entry instead of the preceding one
previous_visit_month_next(list, cur) ==
    LET idx == ListIndex(list, cur)
    IN  IF idx = 0 THEN PyNone
        ELSE IF idx < Len(list) THEN list[idx + 1] ELSE list[1]

previous_visit_month(list, cur) ==
    LET idx == ListIndex(list, cur)
    IN  IF idx = 0 THEN PyNone
        ELSE IF idx > 1 THEN list[idx - 1] ELSE list[Len(list)]

\* run_summary lines 186-190: the span of months for one site
SpanMonths(prev, picked) ==
    IF Truthy(prev) THEN months_between_inclusive(prev, picked) ELSE <<picked>>

-----------------------------------------------------------------------------
(* Cell values of a worksheet (openpyxl, data_only): None, str, int/float,  *)
(* datetime, date, time.  A datetime keeps year, month, day and hour.       *)

NoneV == [t |-> "none"]
StrV(chars) == [t |-> "str", s |-> chars]
NumV(n) == [t |-> "num", v |-> n]
DateTimeV(y, m, d, hh) == [t |-> "datetime", y |-> y, m |-> m, d |-> d, hh |-> hh]
DateV(y, m, d) == [t |-> "date", y |-> y, m |-> m, d |-> d]
TimeV(hh) == [t |-> "time", hh |-> hh]

\* a worksheet is its rows of cells; ws.max_row and ws.max_column
MaxRow(ws) == Len(ws.rows)
MaxColumn(ws) == IF Len(ws.rows) = 0 THEN 1 ELSE Len(ws.rows[1])

\* ws.cell(row=r, column=c).value; a cell outside the used range is empty
CellValue(ws, r, c) ==
    IF r \in 1..Len(ws.rows) /\ c \in 1..Len(ws.rows[r]) THEN ws.rows[r][c] ELSE NoneV

Min(a, b) == IF a < b THEN a ELSE b

Pad2(n) == IF n < 10 THEN <<"0">> \o StrOfNat(n) ELSE StrOfNat(n)

\* str(v) of a cell value
PyStr(v) ==
    CASE v.t = "none" -> <<"N", "o", "n", "e">>
      [] v.t = "str" -> v.s
      [] v.t = "num" -> IF v.v < 0 THEN <<"-">> \o StrOfNat(0 - v.v) ELSE StrOfNat(v.v)
      [] v.t = "datetime" ->
            StrOfNat(v.y) \o <<"-">> \o Pad2(v.m) \o <<"-">> \o Pad2(v.d) \o <<" ">>
            \o Pad2(v.hh) \o <<":", "0", "0", ":", "0", "0">>
      [] v.t = "date" -> StrOfNat(v.y) \o <<"-">> \o Pad2(v.m) \o <<"-">> \o Pad2(v.d)
      [] v.t = "time" -> Pad2(v.hh) \o <<":", "0", "0", ":", "0", "0">>

-----------------------------------------------------------------------------
(* datetime arithmetic and ordering (Python's datetime)                     *)

\* days since 1970-01-01 of a proleptic Gregorian date
DaysFromCivil(y, m, d) ==
    LET yy  == IF m <= 2 THEN y - 1 ELSE y
        era == yy \div 400
        yoe == yy - era * 400
        mp  == IF m > 2 THEN m - 3 ELSE m + 9
        doy == ((153 * mp + 2) \div 5) + d - 1
        doe == yoe * 365 + (yoe \div 4) - (yoe \div 100) + doy
    IN  era * 146097 + doe - 719468

\* the date of a day number
CivilFromDays(z0) ==
    LET z   == z0 + 719468
        era == z \div 146097
        doe == z - era * 146097
        yoe == (doe - (doe \div 1460) + (doe \div 36524) - (doe \div 146096)) \div 365
        doy == doe - (365 * yoe + (yoe \div 4) - (yoe \div 100))
        mp  == (5 * doy + 2) \div 153
        d   == doy - ((153 * mp + 2) \div 5) + 1
        m   == IF mp < 10 THEN mp + 3 ELSE mp - 9
        y   == yoe + era * 400
    IN  [y |-> IF m <= 2 THEN y + 1 ELSE y, m |-> m, d |-> d]

\* dt + timedelta(days=n), the time of day kept
AddDays(dt, n) ==
    LET c == CivilFromDays(DaysFromCivil(dt.y, dt.m, dt.d) + n)
    IN  DateTimeV(c.y, c.m, c.d, dt.hh)

\* a <= b on datetimes
DtLeq(a, b) ==
    \/ a.y < b.y
    \/ a.y = b.y /\ a.m < b.m
    \/ a.y = b.y /\ a.m = b.m /\ a.d < b.d
    \/ a.y = b.y /\ a.m = b.m /\ a.d = b.d /\ a.hh <= b.hh

DtLess(a, b) == DtLeq(a, b) /\ a # b

-----------------------------------------------------------------------------
(* SGSData.py: window arithmetic *)

\* faulty variant: quotient and remainder rounded towards zero instead of down
ym_add_truncating(year, month, delta) ==
    LET n == month - 1 + delta
        q == IF n >= 0 THEN n \div 12 ELSE -((-n) \div 12)
        r == IF n >= 0 THEN n % 12 ELSE -((-n) % 12)
    IN  [y |-> year + q, m |-> r + 1]

\* lines 38-42: Python's // and % round down, as \div and % do
ym_add(year, month, delta) ==
    [y |-> year + ((month - 1 + delta) \div 12), m |-> ((month - 1 + delta) % 12) + 1]

YmIdle ==
    /\ ym_year = 0
    /\ ym_month = 0
    /\ ym_delta = 0
    /\ ym_there = [y |-> 0, m |-> 0]
    /\ ym_back = [y |-> 0, m |-> 0]
    /\ ym_pc = "off"

month_start(year, month) == DateTimeV(year, month, 1, 0)

\* faulty variant: the end of the month taken as the first day of the next month
month_end_next_first(year, month) ==
    LET n == ym_add(year, month, 1) IN DateTimeV(n.y, n.m, 1, 0)

month_end(year, month) ==
    LET n == ym_add(year, month, 1) IN AddDays(DateTimeV(n.y, n.m, 1, 0), 0 - 1)

-----------------------------------------------------------------------------
(* SGSData.py: parsing configuration *)

PARAM_KEYS ==
    { <<"c","b","o","d">>, <<"c","b","o","d","5">>, <<"t","s","s">>, <<"t","p">>,
      <<"t","a","n">>, <<"t","k","n">>, <<"n","o","3">>, <<"n","o","2">>, <<"t","n">>,
      <<"b","o","d">>, <<"b","o","d","5">> }

GROUP1_KEYS ==
    { <<"c","b","o","d","5">>, <<"b","o","d","5">>, <<"t","s","s">>,
      <<"c","b","o","d">>, <<"b","o","d">> }

GROUP2_KEYS ==
    { <<"t","k","n">>, <<"t","a","n">>, <<"n","o","2">>, <<"n","o","3">>, <<"t","n">> }

EXCLUDE_HDR_WORDS ==
    { <<"u","n","i","t","s">>, <<"o","b","j","e","c","t","i","v","e">>,
      <<"l","i","m","i","t">>, <<"a","v","e","r","a","g","e">>,
      <<"m","e","d","i","a","n">>, <<"c","o","f","a">>, <<"e","c","a">> }

\* the labels parse_date_cell rejects before trying the date formats
NON_DATE_LABELS ==
    { <<"u","n","i","t","s">>, <<"a","v","e","r","a","g","e">>, <<"m","e","d","i","a","n">>,
      <<"c","o","f","a"," ","o","b","j","e","c","t","i","v","e">>,
      <<"e","c","a"," ","o","b","j","e","c","t","i","v","e">>,
      <<"c","o","f","a"," ","l","i","m","i","t">>,
      <<"e","c","a"," ","l","i","m","i","t">> }

\* the words that mark a meta row under the header row
META_ROW_WORDS ==
    { <<"u","n","i","t","s">>, <<"c","o","f","a">>, <<"e","c","a">>,
      <<"o","b","j","e","c","t","i","v","e">>, <<"l","i","m","i","t">> }

\* re.sub(r"[^a-z0-9]+", "", s)
StripNonAlnum(s) == SelectSeq(s, LAMBDA c : IsLower(c) \/ IsDigit(c))

-----------------------------------------------------------------------------
(* datetime.strptime for the directives the date formats use.  A format is  *)
(* a sequence of directives and literal characters; a match is tried in the *)
(* order of the regular expression strptime builds, first complete match    *)
(* wins, and the whole string must be consumed.                             *)

DATE_PARSE_FORMATS ==
    << <<"%d", "-", "%b", "-", "%Y">>,
       <<"%d", "-", "%b", "-", "%y">>,
       <<"%Y", "-", "%m", "-", "%d">>,
       <<"%b", " ", "%d", ",", " ", "%Y">>,
       <<"%B", " ", "%d", ",", " ", "%Y">>,
       <<"%d", "/", "%m", "/", "%Y">>,
       <<"%m", "/", "%d", "/", "%Y">> >>

DaysInMonth(y, m) ==
    LET n == [y |-> y + (m \div 12), m |-> (m % 12) + 1]
    IN  DaysFromCivil(n.y, n.m, 1) - DaysFromCivil(y, m, 1)

\* the substring s[pos+1 .. pos+n], or <<>> when it runs past the end
Peek(s, pos, n) == IF pos + n <= Len(s) THEN SubSeq(s, pos + 1, pos + n) ELSE <<>>

\* the lengths a directive can consume at pos, in the regex's order of preference
Candidates(dir, s, pos) ==
    LET two == Peek(s, pos, 2)
        one == Peek(s, pos, 1)
        twoNum == IF Len(two) = 2 /\ IsDigit(two[1]) /\ IsDigit(two[2])
                  THEN IntOfDigits(two) ELSE 0 - 1
    IN  CASE dir = "%d" ->
               (IF twoNum \in 1..31 THEN <<2>> ELSE <<>>)
               \o (IF Len(one) = 1 /\ IsDigit(one[1]) /\ one[1] # "0" THEN <<1>> ELSE <<>>)
               \o (IF Len(two) = 2 /\ two[1] = " " /\ IsDigit(two[2]) /\ two[2] # "0"
                   THEN <<2>> ELSE <<>>)
          [] dir = "%m" ->
               (IF twoNum \in 1..12 THEN <<2>> ELSE <<>>)
               \o (IF Len(one) = 1 /\ IsDigit(one[1]) /\ one[1] # "0" THEN <<1>> ELSE <<>>)
          [] dir = "%Y" -> IF IsDigitStr(Peek(s, pos, 4)) THEN <<4>> ELSE <<>>
          [] dir = "%y" -> IF IsDigitStr(two) THEN <<2>> ELSE <<>>
          [] dir = "%b" ->
               IF \E i \in 1..12 : Lower(Peek(s, pos, 3)) = Lower(Take(MONTHS_FULL[i], 3))
               THEN <<3>> ELSE <<>>
          [] dir = "%B" ->
               LET hit == {i \in 1..12 :
                             Lower(Peek(s, pos, Len(MONTHS_FULL[i]))) = Lower(MONTHS_FULL[i])}
               IN  IF hit = {} THEN <<>> ELSE <<Len(MONTHS_FULL[CHOOSE i \in hit : TRUE])>>
          [] dir = " " ->
               LET run == CHOOSE n \in 0..(Len(s) - pos) :
                             /\ \A j \in 1..n : IsSpace(s[pos + j])
                             /\ (pos + n < Len(s) => ~IsSpace(s[pos + n + 1]))
               IN  [i \in 1..run |-> run - i + 1]
          [] OTHER -> IF one = <<dir>> THEN <<1>> ELSE <<>>

\* the value a directive yields from the text it consumed
Field(dir, txt, acc) ==
    CASE dir = "%d" -> [acc EXCEPT !.d = IntOfDigits(Strip(txt))]
      [] dir = "%m" -> [acc EXCEPT !.m = IntOfDigits(txt)]
      [] dir = "%Y" -> [acc EXCEPT !.y = IntOfDigits(txt)]
      [] dir = "%y" -> [acc EXCEPT !.y = IF IntOfDigits(txt) < 69 THEN 2000 + IntOfDigits(txt)
                                         ELSE 1900 + IntOfDigits(txt)]
      [] dir = "%b" -> [acc EXCEPT !.m = CHOOSE i \in 1..12 :
                                            Lower(Take(MONTHS_FULL[i], 3)) = Lower(txt)]
      [] dir = "%B" -> [acc EXCEPT !.m = CHOOSE i \in 1..12 : Lower(MONTHS_FULL[i]) = Lower(txt)]
      [] OTHER -> acc

\* all complete matches of fmt[k..] from pos, in the regex's order of preference
RECURSIVE MatchFrom(_, _, _, _, _)
RECURSIVE MatchAlts(_, _, _, _, _, _)
MatchAlts(fmt, k, s, pos, acc, alts) ==
    IF Len(alts) = 0 THEN <<>>
    ELSE MatchFrom(fmt, k + 1, s, pos + alts[1],
                   Field(fmt[k], SubSeq(s, pos + 1, pos + alts[1]), acc))
         \o MatchAlts(fmt, k, s, pos, acc, Tail(alts))

MatchFrom(fmt, k, s, pos, acc) ==
    IF k > Len(fmt) THEN << [acc EXCEPT !.end = pos] >>
    ELSE MatchAlts(fmt, k, s, pos, acc, Candidates(fmt[k], s, pos))

\* the datetime of the first match, or NoneV when strptime raises ValueError (no
\* match, unconverted data remains, or a day the month does not have)
StrptimeResult(s, found) ==
    IF Len(found) = 0 THEN NoneV
    ELSE IF found[1].end # Len(s) THEN NoneV
    ELSE IF found[1].y < 1 \/ found[1].d > DaysInMonth(found[1].y, found[1].m) THEN NoneV
    ELSE DateTimeV(found[1].y, found[1].m, found[1].d, 0)

\* datetime.strptime(s, fmt)
strptime(s, fmt) ==
    StrptimeResult(s, MatchFrom(fmt, 1, s, 0, [y |-> 1900, m |-> 1, d |-> 1, end |-> 0]))

\* the loop over a list of formats: the first format that parses wins
RECURSIVE TryFormats(_, _, _)
FirstParsed(r, fmts, s, k) == IF r # NoneV THEN r ELSE TryFormats(fmts, s, k + 1)

TryFormats(fmts, s, k) ==
    IF k > Len(fmts) THEN NoneV
    ELSE FirstParsed(strptime(s, fmts[k]), fmts, s, k)

\* a spreadsheet serial number as a datetime: 1899-12-30 plus that many days;
\* a serial in [0, 1) is a time of day
FromSerial(n) ==
    IF n = 0 THEN TimeV(0)
    ELSE AddDays(DateTimeV(1899, 12, 30, 0), n)

\* lines 67-70: a converted time of day is no date
SerialResult(converted) == IF converted.t = "time" THEN NoneV ELSE converted

\* lines 54-61: a string cell, already stripped
ParseDateString(s) ==
    IF s = <<>> THEN NoneV
    ELSE IF Lower(s) \in NON_DATE_LABELS THEN NoneV
    ELSE TryFormats(DATE_PARSE_FORMATS, s, 1)

\* faulty variant: a time of day is taken for a date (the day the serials start at)
parse_date_cell_time_as_date(val) ==
    CASE val.t = "datetime" -> val
      [] val.t = "none" -> NoneV
      [] val.t = "str" -> ParseDateString(Strip(val.s))
      [] val.t = "num" -> SerialResult(FromSerial(val.v))
      [] val.t = "time" -> DateTimeV(1899, 12, 30, val.hh)
      [] val.t = "date" -> DateTimeV(val.y, val.m, val.d, 0)

\* parse_date_cell: a datetime record, or NoneV for "no date"
parse_date_cell(val) ==
    CASE val.t = "datetime" -> val
      [] val.t = "none" -> NoneV
      [] val.t = "str" -> ParseDateString(Strip(val.s))
      [] val.t = "num" -> SerialResult(FromSerial(val.v))
      [] val.t = "time" -> NoneV
      [] val.t = "date" -> DateTimeV(val.y, val.m, val.d, 0)

\* truthiness of parse_date_cell's result
IsDate(v) == v.t = "datetime"

-----------------------------------------------------------------------------
(* The Word document: a sequence of blocks.  A text is a sequence of        *)
(* characters; a fixed caption is carried as one piece.                     *)

PageBreak == [k |-> "pagebreak"]
Heading(txt, level) == [k |-> "heading", text |-> txt, level |-> level]
Para(txt) == [k |-> "para", text |-> txt]
Table(headers, rows) == [k |-> "table", headers |-> headers, rows |-> rows]
Picture(title, series) == [k |-> "picture", title |-> title, series |-> series]

-----------------------------------------------------------------------------
(* SGSData.py: locating the header row and the date column *)

\* text(ws, r, c)
TextOf(v) == IF v.t = "none" THEN <<>> ELSE Strip(PyStr(v))

text(ws, r, c) == TextOf(CellValue(ws, r, c))

\* line 100: whether a lower-cased cell text counts as a parameter hit
HasParamKey(tok) == \E key \in PARAM_KEYS : Contains(tok, key)

IsParamHit(s) == s # <<>> /\ HasParamKey(StripNonAlnum(s))

\* number of cells of row r, columns 1..max_c, whose token contains a parameter key
ParamHits(ws, r, max_c) ==
    Cardinality({c \in 1..max_c : IsParamHit(Lower(text(ws, r, c)))})

\* the first element of a non-empty set of row numbers, 0 for None
FirstRow(ok) == IF ok = {} THEN 0 ELSE CHOOSE r \in ok : \A q \in ok : r <= q

\* faulty variant: the scan goes on after a hit, so the last qualifying row is returned
find_param_header_row_last(ws) ==
    LET ok == {r \in 1..Min(MaxRow(ws), 80) : ParamHits(ws, r, Min(MaxColumn(ws), 80)) >= 2}
    IN  IF ok = {} THEN 0 ELSE CHOOSE r \in ok : \A q \in ok : q <= r

\* find_param_header_row: the row number, 0 for None
find_param_header_row(ws) ==
    FirstRow({r \in 1..Min(MaxRow(ws), 80) : ParamHits(ws, r, Min(MaxColumn(ws), 80)) >= 2})

DATE_WORD == <<"d", "a", "t", "e">>

\* the fallback of find_date_column: number of the first N rows of column c that parse
DateScore(ws, c) ==
    Cardinality({r \in 1..Min(MaxRow(ws), 40) : IsDate(parse_date_cell(CellValue(ws, r, c)))})

\* lines 107-109: the column of the first cell, row by row, that contains "date"
FirstNamed(named) ==
    (CHOOSE rc \in named :
        \A q \in named : rc[1] < q[1] \/ (rc[1] = q[1] /\ rc[2] <= q[2]))[2]

\* faulty variant: a score equal to the best replaces it, so the last column with the
\* highest score is kept
BestColumn_last(scores) ==
    IF Len(scores) = 0 THEN 0
    ELSE CHOOSE c \in 1..Len(scores) :
            /\ \A q \in 1..Len(scores) : scores[q] <= scores[c]
            /\ \A q \in (c + 1)..Len(scores) : scores[q] < scores[c]

\* lines 111-115: best_score starts at -1 and is replaced only by a strictly greater
\* score, so the first column with the highest score is kept
BestColumn(scores) ==
    IF Len(scores) = 0 THEN 0
    ELSE CHOOSE c \in 1..Len(scores) :
            /\ \A q \in 1..Len(scores) : scores[q] <= scores[c]
            /\ \A q \in 1..(c - 1) : scores[q] < scores[c]

DateColumnOf(ws, named) ==
    IF named # {} THEN FirstNamed(named)
    ELSE BestColumn([c \in 1..Min(MaxColumn(ws), 60) |-> DateScore(ws, c)])

\* find_date_column: the column number, 0 for None
find_date_column(ws) ==
    DateColumnOf(ws, {rc \in (1..Min(MaxRow(ws), 60)) \X (1..Min(MaxColumn(ws), 60)) :
                         Contains(Lower(text(ws, rc[1], rc[2])), DATE_WORD)})

-----------------------------------------------------------------------------
(* SGSData.py: table_then_two_graphs *)

\* sep.join(parts) for a one-character separator
RECURSIVE JoinWith(_, _)
JoinWith(parts, sep) ==
    IF Len(parts) = 0 THEN <<>>
    ELSE IF Len(parts) = 1 THEN parts[1]
    ELSE parts[1] \o <<sep>> \o JoinWith(Tail(parts), sep)

\* lines 159-160: whether row r is a meta row (units / objectives / limits)
IsMetaRow(ws, r) ==
    LET row_text == JoinWith([c \in 1..MaxColumn(ws) |-> Lower(text(ws, r, c))], " ")
    IN  \E k \in META_ROW_WORDS : Contains(row_text, k)

\* lines 157-160: the first data row
SkipMeta(ws, r) == IF IsMetaRow(ws, r) THEN r + 1 ELSE r

StartRow(ws, param_row) == SkipMeta(ws, SkipMeta(ws, param_row + 1))

\* lines 163-166: the rows from start_row on whose date cell parses, with their dates
DatedRows(ws, start_row, date_col) ==
    LET all == [i \in 1..(IF MaxRow(ws) >= start_row THEN MaxRow(ws) - start_row + 1 ELSE 0) |->
                  [r |-> start_row + i - 1,
                   dt |-> parse_date_cell(CellValue(ws, start_row + i - 1, date_col))]]
    IN  SelectSeq(all, LAMBDA e : IsDate(e.dt))

\* line 170: the month tokens of months_csv
TokenValues(parts) == [i \in 1..Len(parts) |-> IntOfDigits(Strip(parts[i]))]

Tokens(months_csv) ==
    TokenValues(SelectSeq(SplitComma(months_csv), LAMBDA x : IsDigitStr(Strip(x))))

\* max(dates)
MaxDate(dated) ==
    dated[CHOOSE i \in 1..Len(dated) : \A j \in 1..Len(dated) : DtLeq(dated[j].dt, dated[i].dt)].dt

\* lines 171-176: the reference (month, year) of the window
SelFromLatest(latest) == [m |-> latest.m, y |-> latest.y]

SelFromTokens(tokens, year, dated) ==
    IF Len(tokens) > 0 THEN [m |-> tokens[Len(tokens)], y |-> year]
    ELSE SelFromLatest(MaxDate(dated))

SelRef(months_csv, year, dated) == SelFromTokens(Tokens(months_csv), year, dated)

\* lines 178-180
StartOf(st) == month_start(st.y, st.m)

WindowStart(sel) == StartOf(ym_add(sel.y, sel.m, 0 - 5))

WindowEnd(sel) == month_end(sel.y, sel.m)

\* line 182: the dated rows inside the window
InWindowRows(dated, start_dt, end_dt) ==
    SelectSeq(dated, LAMBDA e : DtLeq(start_dt, e.dt) /\ DtLeq(e.dt, end_dt))

\* isinstance(v, (int, float))
IsNumber(v) == v.t = "num"

Discarded == [keep |-> FALSE, g1 |-> FALSE, g2 |-> FALSE]

InGroup(norm, keys) == \E k \in keys : Contains(norm, k)

\* lines 195-197 on the normalized header
GroupsOf(in_g1, in_g2) ==
    IF ~(in_g1 \/ in_g2) THEN Discarded ELSE [keep |-> TRUE, g1 |-> in_g1, g2 |-> in_g2]

\* lines 192-197
ClassifyNorm(norm) ==
    IF norm = <<>> \/ norm = DATE_WORD \/ \E w \in EXCLUDE_HDR_WORDS : Contains(norm, w)
    THEN Discarded
    ELSE GroupsOf(InGroup(norm, GROUP1_KEYS), InGroup(norm, GROUP2_KEYS))

\* faulty variant: an exclusion keyword no longer discards a header
ClassifyHeader_no_exclusion(raw) ==
    IF raw = <<>> THEN Discarded
    ELSE GroupsOf(InGroup(StripNonAlnum(Lower(raw)), GROUP1_KEYS),
                  InGroup(StripNonAlnum(Lower(raw)), GROUP2_KEYS))

\* lines 190-197: the classification of a header text (raw is text(ws, param_row, c))
ClassifyHeader(raw) ==
    IF raw = <<>> THEN Discarded ELSE ClassifyNorm(StripNonAlnum(Lower(raw)))

\* one column with its header text and classification
ColumnEntry(c, raw, cls) ==
    [c |-> c, label |-> Strip(raw), keep |-> cls.keep, g1 |-> cls.g1, g2 |-> cls.g2]

ColumnOf(c, raw) == ColumnEntry(c, raw, ClassifyHeader(raw))

\* lines 188-204: the retained parameter columns, in column order
ParamColumns(ws, param_row, date_col, inwin) ==
    SelectSeq([c \in 1..MaxColumn(ws) |-> ColumnOf(c, text(ws, param_row, c))],
              LAMBDA e :
                /\ e.c # date_col
                /\ e.keep
                /\ \E i \in 1..Len(inwin) : IsNumber(CellValue(ws, inwin[i].r, e.c)))

\* float(v): ok is FALSE when it raises
FloatOf(v) ==
    CASE v.t = "num" -> [ok |-> TRUE, val |-> v.v]
      [] v.t = "str" ->
            IF IsDigitStr(Strip(v.s)) THEN [ok |-> TRUE, val |-> IntOfDigits(Strip(v.s))]
            ELSE [ok |-> FALSE, val |-> 0]
      [] OTHER -> [ok |-> FALSE, val |-> 0]

\* f"{x:g}" for a whole number below one million
FormatG(n) == IF n < 0 THEN <<"-">> \o StrOfNat(0 - n) ELSE StrOfNat(n)

\* dt.strftime("%d-%b-%y")
StrfDayMonYear(dt) ==
    Pad2(dt.d) \o <<"-">> \o Take(MONTHS_FULL[dt.m], 3) \o <<"-">> \o Pad2(dt.y % 100)

\* lines 222-224: one cell of the table
TableCellOf(v, f) ==
    IF f.ok THEN FormatG(f.val) ELSE IF v.t = "none" THEN <<>> ELSE PyStr(v)

TableCell(v) == TableCellOf(v, FloatOf(v))

\* lines 217-225: the table rows
TableRows(ws, inwin, cols) ==
    [i \in 1..Len(inwin) |->
        <<StrfDayMonYear(inwin[i].dt)>>
        \o [j \in 1..Len(cols) |-> TableCell(CellValue(ws, inwin[i].r, cols[j].c))]]

\* lines 234-238: the points of one column
PointsOf(num) == [i \in 1..Len(num) |-> [dt |-> num[i].dt, v |-> num[i].f.val]]

ColumnPoints(ws, inwin, c) ==
    PointsOf(SelectSeq([i \in 1..Len(inwin) |->
                          [dt |-> inwin[i].dt, f |-> FloatOf(CellValue(ws, inwin[i].r, c))]],
                       LAMBDA e : e.f.ok))

\* series[label] = pts on a dict kept in insertion order
DictSet(series, label, pts) ==
    IF \E i \in 1..Len(series) : series[i].label = label
    THEN [i \in 1..Len(series) |->
            IF series[i].label = label THEN [label |-> label, pts |-> pts] ELSE series[i]]
    ELSE Append(series, [label |-> label, pts |-> pts])

\* lines 232-239 / 244-251: the series of one group
RECURSIVE GroupSeries(_, _, _, _)
WithPoints(acc, label, pts) == IF Len(pts) > 0 THEN DictSet(acc, label, pts) ELSE acc

GroupSeries(ws, inwin, gcols, acc) ==
    IF Len(gcols) = 0 THEN acc
    ELSE GroupSeries(ws, inwin, Tail(gcols),
                     WithPoints(acc, gcols[1].label, ColumnPoints(ws, inwin, gcols[1].c)))

\* faulty variant: the points are charted in the order of the worksheet's rows
SortByDate_unsorted(pts) == pts

\* list.sort(key=lambda x: x[0]): stable, ascending by timestamp
RECURSIVE SortByDate(_)
InsertAt(sorted, e, k) == SubSeq(sorted, 1, k) \o <<e>> \o SubSeq(sorted, k + 1, Len(sorted))

InsertByDate(sorted, e) ==
    InsertAt(sorted, e, Cardinality({i \in 1..Len(sorted) : DtLeq(sorted[i].dt, e.dt)}))

SortByDate(pts) ==
    IF Len(pts) = 0 THEN <<>>
    ELSE InsertByDate(SortByDate(SubSeq(pts, 1, Len(pts) - 1)), pts[Len(pts)])

\* lines 125-148: the chart of the cleaned series, when there is any
PlotClean(doc, title, clean) ==
    IF Len(clean) = 0 THEN doc ELSE doc \o <<Para(<<>>), Picture(title, clean)>>

\* plot_series_to_doc: the document with the chart appended, or unchanged
plot_series_to_doc(doc, title, series) ==
    PlotClean(doc, title,
              SelectSeq([i \in 1..Len(series) |->
                           [label |-> series[i].label, pts |-> SortByDate(series[i].pts)]],
                        LAMBDA e : Len(e.pts) > 0))

\* line 212: the sheet name without its leading site code
Trimmed(sheet_name) ==
    IF \E i \in 1..Len(sheet_name) : sheet_name[i] = " "
    THEN LET k == CHOOSE i \in 1..Len(sheet_name) :
                     sheet_name[i] = " " /\ \A j \in 1..(i - 1) : sheet_name[j] # " "
         IN  SubSeq(sheet_name, k + 1, Len(sheet_name))
    ELSE sheet_name

\* The locals of table_then_two_graphs at the point where it either returns False
\* or starts writing; skip names the early return taken ("" = none).  The scan
\* follows the statements in order, each step handing its result to the next.
ScanRecord(skip, param_row, date_col, dated, sel, start_dt, end_dt, inwin, cols) ==
    [skip |-> skip, param_row |-> param_row, date_col |-> date_col, dated |-> dated,
     sel |-> sel, start_dt |-> start_dt, end_dt |-> end_dt, inwin |-> inwin, cols |-> cols]

NoSel == [m |-> 0, y |-> 0]

\* line 205
ScanColumns(param_row, date_col, dated, sel, start_dt, end_dt, inwin, cols) ==
    ScanRecord(IF Len(cols) = 0 THEN "no columns" ELSE "",
               param_row, date_col, dated, sel, start_dt, end_dt, inwin, cols)

\* lines 183-204
ScanInWindow(ws, param_row, date_col, dated, sel, start_dt, end_dt, inwin) ==
    IF Len(inwin) = 0
    THEN ScanRecord("empty window", param_row, date_col, dated, sel, start_dt, end_dt,
                    <<>>, <<>>)
    ELSE ScanColumns(param_row, date_col, dated, sel, start_dt, end_dt, inwin,
                     ParamColumns(ws, param_row, date_col, inwin))

\* line 182
ScanWindow(ws, param_row, date_col, dated, sel, start_dt, end_dt) ==
    ScanInWindow(ws, param_row, date_col, dated, sel, start_dt, end_dt,
                 InWindowRows(dated, start_dt, end_dt))

\* lines 178-180
ScanSel(ws, param_row, date_col, dated, sel) ==
    ScanWindow(ws, param_row, date_col, dated, sel, WindowStart(sel), WindowEnd(sel))

\* lines 167-176
ScanDated(ws, months_csv, year, param_row, date_col, dated) ==
    IF Len(dated) = 0
    THEN ScanRecord("no dates", param_row, date_col, <<>>, NoSel, NoneV, NoneV, <<>>, <<>>)
    ELSE ScanSel(ws, param_row, date_col, dated, SelRef(months_csv, year, dated))

\* lines 154-166
ScanAnchor(ws, months_csv, year, param_row, date_col) ==
    IF param_row = 0
    THEN ScanRecord("no header row", 0, date_col, <<>>, NoSel, NoneV, NoneV, <<>>, <<>>)
    ELSE IF date_col = 0
    THEN ScanRecord("no date column", param_row, 0, <<>>, NoSel, NoneV, NoneV, <<>>, <<>>)
    ELSE ScanDated(ws, months_csv, year, param_row, date_col,
                   DatedRows(ws, StartRow(ws, param_row), date_col))

\* line 153
SheetScan(ws, months_csv, year) ==
    ScanAnchor(ws, months_csv, year, find_param_header_row(ws), find_date_column(ws))

\* lines 230-252: the two charts
WithChart(doc, gcols, title, series) ==
    IF Len(gcols) > 0 THEN plot_series_to_doc(doc, title, series) ELSE doc

GroupChart(doc, ws, inwin, gcols, title) ==
    WithChart(doc, gcols, title, GroupSeries(ws, inwin, gcols, <<>>))

\* lines 216-228: the table and the paragraph after it
SheetTable(ws, sc) ==
    << Table(<< <<"Date">> >> \o [j \in 1..Len(sc.cols) |-> sc.cols[j].label],
             TableRows(ws, sc.inwin, sc.cols)),
       Para(<<>>) >>

\* lines 207-213: the page break and the heading
SheetHead(doc, trimmed, need_pagebreak) ==
    (IF need_pagebreak THEN Append(doc, PageBreak) ELSE doc) \o <<Heading(trimmed, 2)>>

\* lines 207-254: what the sheet adds to the document
WriteSheet(doc, ws, trimmed, need_pagebreak, sc) ==
    GroupChart(
        GroupChart(SheetHead(doc, trimmed, need_pagebreak) \o SheetTable(ws, sc),
                   ws, sc.inwin, SelectSeq(sc.cols, LAMBDA e : e.g1),
                   trimmed \o <<" - cBOD/BOD/TSS (Last 6 Months)">>),
        ws, sc.inwin, SelectSeq(sc.cols, LAMBDA e : e.g2),
        trimmed \o <<" - Nitrogen Species (Last 6 Months)">>)

\* the result of table_then_two_graphs for a scan: ok FALSE when the sheet is skipped
SheetResult(doc, ws, trimmed, need_pagebreak, sc) ==
    IF sc.skip # "" THEN [ok |-> FALSE, doc |-> doc, scan |-> sc]
    ELSE [ok |-> TRUE, doc |-> WriteSheet(doc, ws, trimmed, need_pagebreak, sc), scan |-> sc]

\* faulty variant: the page break and the heading are written before the sheet is examined
table_then_two_graphs_head_first(doc, ws, sheet_name, months_csv, year, need_pagebreak) ==
    SheetResult(SheetHead(doc, Trimmed(sheet_name), need_pagebreak), ws, Trimmed(sheet_name),
                FALSE, SheetScan(ws, months_csv, year))

\* table_then_two_graphs: [ok, doc], with the locals of the call in scan
table_then_two_graphs(doc, ws, sheet_name, months_csv, year, need_pagebreak) ==
    SheetResult(doc, ws, Trimmed(sheet_name), need_pagebreak, SheetScan(ws, months_csv, year))

-----------------------------------------------------------------------------
(* SGSData.py: main *)

RAW == <<"r", "a", "w">>
SEWAGE == <<"s", "e", "w", "a", "g", "e">>
BIOFILTER == <<"b", "i", "o", "f", "i", "l", "t", "e", "r">>
WATERNOX == <<"w", "a", "t", "e", "r", "n", "o", "x">>
WATERNOXLS == <<"w", "a", "t", "e", "r", "n", "o", "x", "-", "l", "s">>
FINALEFF == <<"f", "i", "n", "a", "l", " ", "e", "f", "f", "l", "u", "e", "n", "t">>
POLISHEREFF == <<"p", "o", "l", "i", "s", "h", "e", "r", " ", "e", "f", "f", "l", "u", "e", "n", "t">>

SGS_STAGE_KEYS ==
    { RAW, SEWAGE, BIOFILTER, WATERNOX, WATERNOXLS }

FINAL_KEYS == { FINALEFF, POLISHEREFF }

\* lines 277-279: whether a sheet name is eligible for the SGS pass
ProcessSheet(sheet_name) ==
    \/ \E k \in SGS_STAGE_KEYS : Contains(Lower(sheet_name), k)
    \/ \E k \in FINAL_KEYS : Contains(Lower(sheet_name), k)

\* lines 287-288
IsFinalSheet(sheet_name) == \E k \in FINAL_KEYS : Contains(Lower(sheet_name), k)

SGSIdle ==
    /\ sgs_pc = "idle"
    /\ sgs_wb = <<>>
    /\ sgs_csv = <<>>
    /\ sgs_year = 0
    /\ sgs_out = 0
    /\ sgs_doc = <<>>
    /\ sgs_i = 0
    /\ any_done = FALSE
    /\ first_section = TRUE
    /\ sgs_results = <<>>

\* lines 262-275: load the workbook and the document, add the appendix header
SGSLoad ==
    /\ sgs_pc = "start"
    /\ sgs_doc' = docs[sgs_out] \o <<PageBreak, Heading(<<"Appendix A: SGS Tables & Graphs">>, 1)>>
    /\ any_done' = FALSE
    /\ first_section' = TRUE
    /\ sgs_i' = 1
    /\ sgs_results' = <<>>
    /\ sgs_pc' = "sheets"
    /\ events' = Append(events, [site |-> sgs_out, ev |-> "sgs_load"])
    /\ UNCHANGED <<ymVars, sgs_wb, sgs_csv, sgs_year, sgs_out, docs, resolverVars, flowVars, guiVars>>

\* lines 276-280: a sheet whose name is not eligible is passed over
SGSPassOver ==
    /\ sgs_pc = "sheets"
    /\ sgs_i <= Len(sgs_wb)
    /\ ~ProcessSheet(sgs_wb[sgs_i].name)
    /\ sgs_i' = sgs_i + 1
    /\ UNCHANGED <<ymVars, sgs_pc, sgs_wb, sgs_csv, sgs_year, sgs_out, sgs_doc, any_done,
                   first_section, sgs_results, docs, resolverVars, flowVars, guiVars, events>>

\* lines 282-288: one eligible sheet through table_then_two_graphs
SheetOutcome(r) ==
    /\ sgs_doc' = r.doc
    /\ any_done' = (any_done \/ r.ok)
    /\ first_section' = (first_section /\ ~r.ok)
    /\ sgs_results' = Append(sgs_results, [i |-> sgs_i, ok |-> r.ok, scan |-> r.scan,
                                            before |-> sgs_doc, after |-> r.doc])

SGSSheet ==
    /\ sgs_pc = "sheets"
    /\ sgs_i <= Len(sgs_wb)
    /\ ProcessSheet(sgs_wb[sgs_i].name)
    /\ SheetOutcome(table_then_two_graphs(sgs_doc, sgs_wb[sgs_i].ws, sgs_wb[sgs_i].name,
                                          sgs_csv, sgs_year, ~first_section))
    /\ sgs_i' = sgs_i + 1
    /\ events' = Append(events, [site |-> sgs_out, ev |-> "sgs_sheet"])
    /\ sgs_pc' = IF IsFinalSheet(sgs_wb[sgs_i].name) THEN "save" ELSE "sheets"
    /\ UNCHANGED <<ymVars, sgs_wb, sgs_csv, sgs_year, sgs_out, docs, resolverVars, flowVars, guiVars>>

\* line 290: the document is saved when the loop ends or breaks
SGSSave ==
    /\ sgs_pc = "save" \/ (sgs_pc = "sheets" /\ sgs_i > Len(sgs_wb))
    /\ docs' = [docs EXCEPT ![sgs_out] = sgs_doc]
    /\ sgs_pc' = "exited"
    /\ events' = Append(events, [site |-> sgs_out, ev |-> "sgs_exit"])
    /\ UNCHANGED <<ymVars, sgs_wb, sgs_csv, sgs_year, sgs_out, sgs_doc, sgs_i, any_done,
                   first_section, sgs_results, resolverVars, flowVars, guiVars>>

-----------------------------------------------------------------------------
(* FlowData.py computes with Python floats (IEEE-754 binary64, round to nearest, *)
(* ties to even).  Natural numbers of any size are little-endian sequences of   *)
(* limbs below LimbBase; a float is m * 2^e with m = <<>> for zero and          *)
(* 2^52 <= m < 2^53 otherwise.                                                  *)

\* the width of a limb: any width whose squares fit 32-bit integers
LimbBits == 13

\* the significand of a binary64
MantBits == 53

RECURSIVE Pow2(_)
Pow2(n) == IF n = 0 THEN 1 ELSE 2 * Pow2(n - 1)

LimbBase == Pow2(LimbBits)

RECURSIVE Pow10(_)
Pow10(n) == IF n = 0 THEN 1 ELSE 10 * Pow10(n - 1)

RECURSIVE BigOfNat(_)
BigOfNat(n) == IF n = 0 THEN <<>> ELSE <<n % LimbBase>> \o BigOfNat(n \div LimbBase)

RECURSIVE BigToNat(_)
BigToNat(x) == IF x = <<>> THEN 0 ELSE Head(x) + LimbBase * BigToNat(Tail(x))

\* without most significant zero limbs
RECURSIVE BigNorm(_)
BigNorm(x) ==
    IF x = <<>> THEN <<>>
    ELSE IF x[Len(x)] = 0 THEN BigNorm(SubSeq(x, 1, Len(x) - 1)) ELSE x

\* x * k + carry for a small k
RECURSIVE BigMulSmall(_, _, _)
BigMulSmall(x, k, carry) ==
    IF x = <<>> THEN BigOfNat(carry)
    ELSE <<(Head(x) * k + carry) % LimbBase>>
         \o BigMulSmall(Tail(x), k, (Head(x) * k + carry) \div LimbBase)

RECURSIVE BigAdd(_, _, _)
BigAdd(x, y, carry) ==
    IF x = <<>> /\ y = <<>> THEN BigOfNat(carry)
    ELSE IF x = <<>> THEN BigAdd(<<0>>, y, carry)
    ELSE IF y = <<>> THEN BigAdd(x, <<0>>, carry)
    ELSE <<(Head(x) + Head(y) + carry) % LimbBase>>
         \o BigAdd(Tail(x), Tail(y), (Head(x) + Head(y) + carry) \div LimbBase)

RECURSIVE BigMul(_, _)
BigMul(x, y) ==
    IF y = <<>> THEN <<>>
    ELSE BigNorm(BigAdd(BigMulSmall(x, Head(y), 0), <<0>> \o BigMul(x, Tail(y)), 0))

\* quotient and remainder of x by a small d, from the most significant limb down
RECURSIVE BigDivFrom(_, _, _, _, _)
BigDivFrom(x, d, i, r, q) ==
    IF i = 0 THEN [q |-> BigNorm(q), r |-> r]
    ELSE BigDivFrom(x, d, i - 1, (r * LimbBase + x[i]) % d,
                    <<(r * LimbBase + x[i]) \div d>> \o q)

BigDivSmall(x, d) == BigDivFrom(x, d, Len(x), 0, <<>>)

RECURSIVE BitLenNat(_)
BitLenNat(n) == IF n = 0 THEN 0 ELSE 1 + BitLenNat(n \div 2)

BigBitLen(x) == IF x = <<>> THEN 0 ELSE (Len(x) - 1) * LimbBits + BitLenNat(x[Len(x)])

\* -1, 0 or 1 as x is below, equal to or above y (both normalized)
RECURSIVE BigCmpFrom(_, _, _)
BigCmpFrom(x, y, i) ==
    IF i = 0 THEN 0
    ELSE IF x[i] < y[i] THEN 0 - 1
    ELSE IF x[i] > y[i] THEN 1
    ELSE BigCmpFrom(x, y, i - 1)

BigCmp(x, y) ==
    IF Len(x) < Len(y) THEN 0 - 1
    ELSE IF Len(x) > Len(y) THEN 1
    ELSE BigCmpFrom(x, y, Len(x))

BigShl(x, t) ==
    BigNorm([i \in 1..(t \div LimbBits) |-> 0] \o BigMulSmall(x, Pow2(t % LimbBits), 0))

\* floor(x / 2^t) with whether anything non-zero was shifted out
ShrLimbs(x, n) == [q |-> SubSeq(x, n + 1, Len(x)),
                   lost |-> \E i \in 1..Min(n, Len(x)) : x[i] # 0]

ShrBits(part, dv) == [q |-> dv.q, lost |-> part.lost \/ dv.r # 0]

ShrRest(part, b) == ShrBits(part, BigDivSmall(part.q, Pow2(b)))

BigShr(x, t) == ShrRest(ShrLimbs(x, t \div LimbBits), t % LimbBits)

\* round to nearest, ties to even: kept is floor(x / 2^(t-1)) with its sticky flag
Nearest(half, sticky) ==
    IF half.r = 1 /\ (sticky \/ (half.q # <<>> /\ half.q[1] % 2 = 1))
    THEN BigAdd(half.q, <<1>>, 0)
    ELSE half.q

NearestOf(kept, sticky) == Nearest(BigDivSmall(kept.q, 2), kept.lost \/ sticky)

\* the float with mantissa m (of MantBits or MantBits + 1 bits after a carry)
Normal(m, e) ==
    IF BigBitLen(m) > MantBits THEN [m |-> BigDivSmall(m, 2).q, e |-> e + 1]
    ELSE [m |-> m, e |-> e]

\* the float nearest to (x + a fraction that is non-zero iff sticky) * 2^e
RoundBig(x, e, sticky) ==
    IF x = <<>> THEN [m |-> <<>>, e |-> 0]
    ELSE IF BigBitLen(x) <= MantBits
    THEN [m |-> BigShl(x, MantBits - BigBitLen(x)), e |-> e - (MantBits - BigBitLen(x))]
    ELSE Normal(NearestOf(BigShr(x, BigBitLen(x) - MantBits - 1), sticky),
                e + (BigBitLen(x) - MantBits))

\* the float nearest to n / d, for naturals n and d > 0 below 2^17
RoundQuotient(dv) == RoundBig(dv.q, 0 - 80, dv.r # 0)

FloatOfRat(n, d) == RoundQuotient(BigDivSmall(BigShl(BigOfNat(n), 80), d))

FloatOfInt(n) == FloatOfRat(n, 1)

\* a * b
FloatMul(a, b) == RoundBig(BigMul(a.m, b.m), a.e + b.e, FALSE)

\* a < b, a <= b for non-negative floats
FloatLess(a, b) ==
    IF b.m = <<>> THEN FALSE
    ELSE IF a.m = <<>> THEN TRUE
    ELSE IF a.e # b.e THEN a.e < b.e
    ELSE BigCmp(a.m, b.m) < 0

FloatLeq(a, b) == ~FloatLess(b, a)

\* int(a): the integer part
FloatTrunc(a) ==
    IF a.m = <<>> THEN 0
    ELSE IF a.e >= 0 THEN BigToNat(BigShl(a.m, a.e))
    ELSE BigToNat(BigShr(a.m, 0 - a.e).q)

-----------------------------------------------------------------------------
(* FlowData.py: extract_peak_capacity *)

PEAK_PHRASES ==
    { <<"p", "e", "a", "k", " ", "r", "a", "t", "e", "d", " ", "c", "a", "p", "a", "c", "i", "t", "y">>,
      <<"p", "e", "a", "k", " ", "d", "e", "s", "i", "g", "n", " ", "d", "a", "i", "l", "y", " ", "f", "l", "o", "w", " ", "r", "a", "t", "e", "d", " ", "c", "a", "p", "a", "c", "i", "t", "y", " ", "o", "f">> }

L_PER_DAY == <<"l", "/", "d", "a", "y">>

NoPeak == [some |-> FALSE, f |-> [m |-> <<>>, e |-> 0]]
SomePeak(f) == [some |-> TRUE, f |-> f]

\* the text of a paragraph or heading; other blocks are not in doc.paragraphs
IsParagraph(b) == b.k \in {"para", "heading", "pagebreak"}
ParaText(b) == IF b.k \in {"para", "heading"} THEN b.text ELSE <<>>

\* the number of leading characters of s[pos+1..] that satisfy Ok
RunLength(s, pos, Ok(_)) ==
    CHOOSE n \in 0..(Len(s) - pos) :
        /\ \A j \in 1..n : Ok(s[pos + j])
        /\ (pos + n < Len(s) => ~Ok(s[pos + n + 1]))

IsDigitOrComma(c) == IsDigit(c) \/ c = ","

\* \s*L/day at pos, ignoring case
UnitAfterSpaces(txt, pos, spaces) ==
    Lower(Peek(txt, pos + spaces, Len(L_PER_DAY))) = L_PER_DAY

UnitAt(txt, pos) == UnitAfterSpaces(txt, pos, RunLength(txt, pos, IsSpace))

\* (?:\.\d+)? at pos: the number of characters of the fraction, 0 when there is none
FractionLength(txt, pos, digits) ==
    IF Peek(txt, pos, 1) = <<".">> /\ digits > 0 THEN 1 + digits ELSE 0

FractionAt(txt, pos) == FractionLength(txt, pos, RunLength(txt, pos + 1, IsDigit))

\* ([\d,]+(?:\.\d+)?)\s*L/day at pos: every shorter repetition leaves a digit, a
\* comma or a dot where \s*L/day has to start, so only the longest can match
NumberWith(txt, pos, run, frac) ==
    [ok |-> run > 0 /\ UnitAt(txt, pos + run + frac),
     int |-> SelectSeq(SubSeq(txt, pos + 1, pos + run), IsDigit),
     frac |-> SubSeq(txt, pos + run + 2, pos + run + frac)]

NumberRun(txt, pos, run) == NumberWith(txt, pos, run, FractionAt(txt, pos + run))

NumberAt(txt, pos) == NumberRun(txt, pos, RunLength(txt, pos, IsDigitOrComma))

\* where the keyword phrases end in txt, ignoring case
PhraseEnds(txt) ==
    {i + Len(ph) : <<i, ph>> \in
        {ip \in (0..Len(txt)) \X PEAK_PHRASES : Lower(Peek(txt, ip[1], Len(ip[2]))) = ip[2]}}

\* pattern.search(para.text): the leftmost keyword phrase, then the first number
\* followed by L/day after it (.*? is lazy); found is FALSE when nothing matches
FirstNumber(txt, starts) ==
    IF starts = {} THEN [found |-> FALSE, int |-> <<>>, frac |-> <<>>]
    ELSE [found |-> TRUE,
          int |-> NumberAt(txt, CHOOSE j \in starts : \A q \in starts : j <= q).int,
          frac |-> NumberAt(txt, CHOOSE j \in starts : \A q \in starts : j <= q).frac]

SearchFrom(txt, ends) ==
    IF ends = {} THEN [found |-> FALSE, int |-> <<>>, frac |-> <<>>]
    ELSE FirstNumber(txt, {j \in (CHOOSE e \in ends : \A q \in ends : e <= q)..Len(txt) :
                              NumberAt(txt, j).ok})

PeakSearch(txt) == SearchFrom(txt, PhraseEnds(txt))

\* float(value_str) with the commas removed; ok is FALSE on ValueError
FloatOfDecimal(int, frac) ==
    IF int = <<>> /\ frac = <<>> THEN [ok |-> FALSE, f |-> [m |-> <<>>, e |-> 0]]
    ELSE [ok |-> TRUE, f |-> FloatOfRat(IntOfDigits(int \o frac), Pow10(Len(frac)))]

\* the loop over doc.paragraphs: the first paragraph that matches and converts
RECURSIVE extract_peak_capacity_from(_, _)
PeakOfMatch(doc, i, hit, val) ==
    IF hit.found /\ val.ok THEN SomePeak(val.f) ELSE extract_peak_capacity_from(doc, i + 1)

PeakOfSearch(doc, i, hit) == PeakOfMatch(doc, i, hit, FloatOfDecimal(hit.int, hit.frac))

extract_peak_capacity_from(doc, i) ==
    IF i > Len(doc) THEN NoPeak
    ELSE PeakOfSearch(doc, i, PeakSearch(ParaText(doc[i])))

extract_peak_capacity(doc) == extract_peak_capacity_from(doc, 1)

-----------------------------------------------------------------------------
(* FlowData.py: sheet_to_word_table *)

FLOW_DATE_FORMATS ==
    << <<"%d", "-", "%b", "-", "%y">>,
       <<"%d", "-", "%b", "-", "%Y">>,
       <<"%Y", "-", "%m", "-", "%d">>,
       <<"%b", " ", "%d", ",", " ", "%Y">>,
       <<"%B", " ", "%d", ",", " ", "%Y">> >>

WORD_AVERAGE == <<"a", "v", "e", "r", "a", "g", "e">>
WORD_FLOW == <<"f", "l", "o", "w">>
WORD_DAILY == <<"d", "a", "i", "l", "y">>
WORD_PUMP == <<"p", "u", "m", "p">>
WORD_TOTAL_DAILY_FLOW == <<"t", "o", "t", "a", "l", " ", "d", "a", "i", "l", "y", " ", "f", "l", "o", "w">>

\* line 92 / 138 / 158: a string cell that reads as the given word
IsLabel(v, word) == v.t = "str" /\ Lower(Strip(v.s)) = word

\* lines 94-98: the lower-cased texts of the non-empty cells of row r
FlowRowText(ws, r) ==
    JoinWith(SelectSeq([c \in 1..MaxColumn(ws) |->
                           IF CellValue(ws, r, c).t = "none" THEN <<"<None>">>
                           ELSE Lower(PyStr(CellValue(ws, r, c)))],
                       LAMBDA x : x # <<"<None>">>),
             <<" ">>)

\* lines 90-101: the loop stops at the first row, at or after a Date row, whose
\* text contains "average"; date_row is the last Date row up to there
FlowAvgRow(ws) ==
    FirstRow({r \in 1..MaxRow(ws) :
                /\ \E q \in 1..r : IsLabel(CellValue(ws, q, 1), DATE_WORD)
                /\ Contains(FlowRowText(ws, r), WORD_AVERAGE)})

LastRow(ok) == IF ok = {} THEN 0 ELSE CHOOSE r \in ok : \A q \in ok : q <= r

FlowDateRow(ws, avg_row) ==
    LastRow({q \in 1..(IF avg_row = 0 THEN MaxRow(ws) ELSE avg_row) :
                IsLabel(CellValue(ws, q, 1), DATE_WORD)})

\* line 112
FlowHeader(v) == IF v.t = "none" THEN <<>> ELSE Lower(Strip(PyStr(v)))

\* line 113: the column at which the scan of the header stops
IsDailyStop(header) ==
    Contains(header, WORD_DAILY) /\ ~StartsWith(header, WORD_TOTAL_DAILY_FLOW)

\* line 108: ^pump\s*\d
PumpDigit(header, spaces) == IsDigitStr(Peek(header, Len(WORD_PUMP) + spaces, 1))

IsPump(header) ==
    StartsWith(header, WORD_PUMP) /\ PumpDigit(header, RunLength(header, Len(WORD_PUMP), IsSpace))

\* line 117
IsBlank(v) == v.t = "none" \/ (v.t = "str" /\ v.s = <<>>)

\* lines 109-118: the kept columns, as worksheet column numbers
KeptBefore(ws, date_row, avg_row, stop) ==
    SelectSeq([c \in 1..(stop - 1) |-> c],
              LAMBDA c :
                /\ ~IsPump(FlowHeader(CellValue(ws, date_row, c)))
                /\ \E r \in date_row..avg_row : ~IsBlank(CellValue(ws, r, c)))

FlowKeepCols(ws, date_row, avg_row) ==
    KeptBefore(ws, date_row, avg_row,
               FirstRow({c \in 1..MaxColumn(ws) :
                            IsDailyStop(FlowHeader(CellValue(ws, date_row, c)))}
                        \cup {MaxColumn(ws) + 1}))

\* f"{val:.0f}" of an int
FormatFixed0(n) == IF n < 0 THEN <<"-">> \o StrOfNat(0 - n) ELSE StrOfNat(n)

\* lines 132-135
FlowCellText(v) ==
    CASE v.t = "datetime" -> StrfDayMonYear(v)
      [] v.t = "num" -> FormatFixed0(v.v)
      [] v.t = "none" -> <<>>
      [] OTHER -> PyStr(v)

\* lines 129-139: the texts of the table
FlowTableRows(ws, date_row, avg_row, keep_cols) ==
    [i \in 1..(avg_row - date_row + 1) |->
        [j \in 1..Len(keep_cols) |-> FlowCellText(CellValue(ws, date_row + i - 1, keep_cols[j]))]]

\* the positions in keep_cols whose header reads "flow"
FlowLabelled(ws, date_row, keep_cols) ==
    {j \in 1..Len(keep_cols) : IsLabel(CellValue(ws, date_row, keep_cols[j]), WORD_FLOW)}

\* lines 127-139, 155-163: the worksheet column the series is read from and the
\* table column that is highlighted (positions in keep_cols, from 1)
ChartColumns(keep_cols, labelled) ==
    IF labelled = {}
    THEN [excel_chart_col |-> keep_cols[Len(keep_cols)], chart_col_idx |-> Len(keep_cols)]
    ELSE [excel_chart_col |-> keep_cols[FirstRow(labelled)], chart_col_idx |-> LastRow(labelled)]

\* lines 169-179: the date of a row
FlowDateOf(v) ==
    IF v.t = "datetime" THEN v
    ELSE IF v.t = "none" \/ (v.t = "str" /\ v.s = <<>>) \/ (v.t = "num" /\ v.v = 0) THEN NoneV
    ELSE TryFormats(FLOW_DATE_FORMATS, PyStr(v), 1)

\* lines 168-186: the rows whose chart cell converts to a float, with their dates
FlowPoint(r, dt, f) == [r |-> r, dt |-> dt, ok |-> f.ok, fval |-> f.val]

FlowPoints(ws, date_row, avg_row, col) ==
    SelectSeq([i \in 1..(avg_row - date_row + 1) |->
                  FlowPoint(date_row + i - 1, FlowDateOf(CellValue(ws, date_row + i - 1, 1)),
                            FloatOf(CellValue(ws, date_row + i - 1, col)))],
              LAMBDA p : p.ok)

\* lines 187-188: the rows appended to exceedances
FlowExceedances(points, peak) ==
    SelectSeq(points, LAMBDA p : peak.some /\ FloatLess(peak.f, FloatOfInt(p.fval)))

\* lines 195-200: the days and values that are plotted
FlowPlotted(points) ==
    IF Len(points) > 0 /\ \A i \in 1..Len(points) : points[i].dt = NoneV
    THEN [i \in 1..Len(points) |-> [day |-> i, v |-> points[i].fval]]
    ELSE [i \in 1..Len(SelectSeq(points, LAMBDA p : p.dt # NoneV)) |->
             [day |-> SelectSeq(points, LAMBDA p : p.dt # NoneV)[i].dt.d,
              v |-> SelectSeq(points, LAMBDA p : p.dt # NoneV)[i].fval]]

RECURSIVE SumValues(_)
SumValues(plotted) ==
    IF Len(plotted) = 0 THEN 0 ELSE plotted[1].v + SumValues(Tail(plotted))

WELL_WITHIN == <<"w", "e", "l", "l", " ", "w", "i", "t", "h", "i", "n">>
CLOSE_TO == <<"c", "l", "o", "s", "e", " ", "t", "o">>
ABOVE == <<"a", "b", "o", "v", "e">>

\* line 238
Classification(avg_flow, peak_capacity) ==
    IF FloatLess(avg_flow, FloatMul(FloatOfRat(9, 10), peak_capacity)) THEN WELL_WITHIN
    ELSE IF FloatLeq(avg_flow, peak_capacity) THEN CLOSE_TO
    ELSE ABOVE

\* f"{n:,}" of an int n >= 0
RECURSIVE FormatThousands(_)
FormatThousands(n) ==
    IF n < 1000 THEN StrOfNat(n)
    ELSE FormatThousands(n \div 1000) \o <<",">>
         \o LastN(<<"0", "0">> \o StrOfNat(n % 1000), 3)

\* lines 239-242
SummaryText(exceed_count, peak_capacity, avg_classification) ==
    StrOfNat(exceed_count) \o <<" ", "d", "a", "y", "(", "s", ")", " ", "e", "x", "c", "e", "e", "d", "e", "d", " ", "t", "h", "e", " ", "p", "e", "a", "k", " ", "r", "a", "t", "e", "d", " ", "c", "a", "p", "a", "c", "i", "t", "y", " ", "o", "f", " ">>
    \o FormatThousands(FloatTrunc(peak_capacity)) \o <<" ", "L", "/", "d", "a", "y", ".", " ", "T", "h", "e", " ", "a", "v", "e", "r", "a", "g", "e", " ", "d", "a", "i", "l", "y", " ", "f", "l", "o", "w", " ", "r", "e", "m", "a", "i", "n", "e", "d", " ">>
    \o avg_classification \o <<" ", "t", "h", "e", " ", "a", "n", "t", "i", "c", "i", "p", "a", "t", "e", "d", " ", "r", "a", "n", "g", "e", ".">>

\* str.split(): the words of s between runs of white space
RECURSIVE Words(_)
WordsAfter(s, lead) == IF lead = Len(s) THEN <<>> ELSE Words(SubSeq(s, lead + 1, Len(s)))

WordThen(s, n) == <<SubSeq(s, 1, n)>> \o WordsAfter(s, n + RunLength(s, n, IsSpace))

Words(s) ==
    IF s = <<>> THEN <<>>
    ELSE IF IsSpace(s[1]) THEN WordsAfter(s, RunLength(s, 0, IsSpace))
    ELSE WordThen(s, RunLength(s, 0, LAMBDA c : ~IsSpace(c)))

\* lines 243-246: heading_pat.fullmatch(para.text.strip())
SUBSURFACE_HEADINGS ==
    { << <<"f", "l", "o", "w">>, <<"d", "i", "s", "c", "h", "a", "r", "g", "e", "d">>, <<"t", "o">> >> \o the
         \o << <<"s", "u", "b", "s", "u", "r", "f", "a", "c", "e">>, kind, <<"s", "y", "s", "t", "e", "m">> >>
      : <<the, kind>> \in {<<>>, << <<"t", "h", "e">> >>} \X {<<"d", "i", "s", "p", "o", "s", "a", "l">>, <<"d", "i", "s", "p", "e", "r", "s", "a", "l">>} }

IsSubsurfaceHeading(txt) ==
    Words(Lower(txt)) \in SUBSURFACE_HEADINGS

\* lines 216-222: the title of the chart
MonthOfAbbrev(parsed, month_abbrev) ==
    IF parsed = NoneV THEN month_abbrev ELSE MONTHS_FULL[parsed.m]

ChartTitleOf(month_abbrev, site) ==
    MonthOfAbbrev(strptime(month_abbrev, <<"%b">>), month_abbrev)
    \o <<" ", "f", "l", "o", "w", " ", "d", "a", "t", "a", " ", "o", "f", " ">> \o site

ChartTitle(title, site) == ChartTitleOf(Words(title)[1], site)

FlowTable(rows, red) == [k |-> "table", headers |-> <<>>, rows |-> rows, red |-> red]

FlowPicture(title, plotted, hline, marks) ==
    [k |-> "picture", title |-> title, series |-> plotted, hline |-> hline, marks |-> marks]

\* The locals of sheet_to_word_table; skip names the early return taken ("" = none)
FlowScanRecord(skip, date_row, avg_row, keep_cols, cc, points, exceedances, plotted, peak) ==
    [skip |-> skip, date_row |-> date_row, avg_row |-> avg_row, keep_cols |-> keep_cols,
     excel_chart_col |-> cc.excel_chart_col, chart_col_idx |-> cc.chart_col_idx,
     points |-> points, exceedances |-> exceedances, plotted |-> plotted, peak |-> peak,
     has_summary |-> peak.some /\ Len(plotted) > 0,
     exceed_count |-> Len(exceedances),
     avg_classification |->
        IF peak.some /\ Len(plotted) > 0
        THEN Classification(FloatOfRat(SumValues(plotted), Len(plotted)), peak.f)
        ELSE <<>>]

NoChartColumns == [excel_chart_col |-> 0, chart_col_idx |-> 0]

\* lines 166-200
FlowScanSeries(date_row, avg_row, keep_cols, cc, points, peak) ==
    FlowScanRecord("", date_row, avg_row, keep_cols, cc, points,
                   FlowExceedances(points, peak), FlowPlotted(points), peak)

\* lines 155-163
FlowScanChart(ws, date_row, avg_row, keep_cols, cc, peak) ==
    FlowScanSeries(date_row, avg_row, keep_cols, cc,
                   FlowPoints(ws, date_row, avg_row, cc.excel_chart_col), peak)

\* lines 119-121
FlowScanKept(ws, date_row, avg_row, keep_cols, peak) ==
    IF Len(keep_cols) = 0
    THEN FlowScanRecord("no data columns", date_row, avg_row, <<>>, NoChartColumns,
                        <<>>, <<>>, <<>>, NoPeak)
    ELSE FlowScanChart(ws, date_row, avg_row, keep_cols,
                       ChartColumns(keep_cols, FlowLabelled(ws, date_row, keep_cols)), peak)

\* lines 102-118
FlowScanRows(ws, date_row, avg_row, peak) ==
    IF date_row = 0 \/ avg_row = 0 \/ avg_row < date_row
    THEN FlowScanRecord("missing rows", date_row, avg_row, <<>>, NoChartColumns,
                        <<>>, <<>>, <<>>, NoPeak)
    ELSE FlowScanKept(ws, date_row, avg_row, FlowKeepCols(ws, date_row, avg_row), peak)

FlowScanAvg(ws, avg_row, peak) == FlowScanRows(ws, FlowDateRow(ws, avg_row), avg_row, peak)

\* lines 89-101
FlowScan(ws, peak) == FlowScanAvg(ws, FlowAvgRow(ws), peak)

\* lines 247-255: the summary goes after the first paragraph that is the
\* subsurface heading, or at the end of the document
InsertSummary(doc, summary_text, at) ==
    IF at = 0 THEN Append(doc, Para(summary_text))
    ELSE SubSeq(doc, 1, at) \o <<Para(summary_text)>> \o SubSeq(doc, at + 1, Len(doc))

FlowWithSummary(doc, sc) ==
    IF ~sc.has_summary THEN doc
    ELSE InsertSummary(doc, SummaryText(sc.exceed_count, sc.peak.f, sc.avg_classification),
                       FirstRow({i \in 1..Len(doc) :
                                    IsParagraph(doc[i]) /\ IsSubsurfaceHeading(Strip(ParaText(doc[i])))}))

\* lines 202-233: the chart, with the threshold line and the marked exceedances
FlowWithChart(doc, title, site, sc) ==
    IF Len(sc.plotted) = 0 THEN doc
    ELSE doc \o << Para(<<>>),
                   FlowPicture(ChartTitle(title, site), sc.plotted, sc.peak,
                               SelectSeq(sc.exceedances, LAMBDA p : p.dt # NoneV)) >>

\* lines 123-139, 187-192: the heading and the table with the highlighted cells
FlowHeadAndTable(ws, title, sc) ==
    << Heading(title, 2),
       FlowTable(FlowTableRows(ws, sc.date_row, sc.avg_row, sc.keep_cols),
                 {<<sc.exceedances[i].r - sc.date_row + 1, sc.chart_col_idx>>
                     : i \in 1..Len(sc.exceedances)}) >>

FlowSheetResult(doc, ws, title, site, sc) ==
    IF sc.skip # "" THEN [doc |-> doc, scan |-> sc]
    ELSE [doc |-> FlowWithSummary(FlowWithChart(doc \o FlowHeadAndTable(ws, title, sc),
                                                title, site, sc), sc),
          scan |-> sc]

\* sheet_to_word_table: the document afterwards, with the locals of the call
sheet_to_word_table(ws, title, doc, site, peak_capacity) ==
    FlowSheetResult(doc, ws, title, site, FlowScan(ws, peak_capacity))

-----------------------------------------------------------------------------
(* FlowData.py: main *)

\* line 268: the month numbers of argv[2]
FlowMonths(csv) ==
    TokenValues(SelectSeq(SplitComma(csv), LAMBDA x : Strip(x) # <<>>))

\* line 286: sorted(months)
RECURSIVE SortNums(_)
InsertNum(sorted, n) ==
    InsertAt(sorted, n, Cardinality({i \in 1..Len(sorted) : sorted[i] <= n}))

SortNums(nums) ==
    IF Len(nums) = 0 THEN <<>>
    ELSE InsertNum(SortNums(SubSeq(nums, 1, Len(nums) - 1)), nums[Len(nums)])

\* lines 287-289: the sheet-name fragment looked for, e.g. "Mar 24"
FlowTarget(m, year) ==
    Title(Take(MONTHS_FULL[m], 3)) \o <<" ">> \o LastN(StrOfNat(year), 2)

\* line 291
MatchingSheets(wb, target) ==
    SelectSeq(wb, LAMBDA sh : Contains(Lower(sh.name), Lower(target)))

\* lines 301-302: every matching sheet through sheet_to_word_table, in order
RECURSIVE FlowSheets(_, _, _, _, _)
FlowSheetsNext(acc, r, sheets, site, peak, m) ==
    FlowSheets([doc |-> r.doc,
                results |-> Append(acc.results,
                                   [m |-> m, name |-> sheets[1].name, scan |-> r.scan,
                                    before |-> acc.doc, after |-> r.doc])],
               Tail(sheets), site, peak, m)

FlowSheets(acc, sheets, site, peak, m) ==
    IF Len(sheets) = 0 THEN acc
    ELSE FlowSheetsNext(acc, sheet_to_word_table(sheets[1].ws, sheets[1].name, acc.doc,
                                                 site, peak),
                        sheets, site, peak, m)

\* the number of inline shapes of a document
InlineShapes(doc) == Cardinality({i \in 1..Len(doc) : doc[i].k = "picture"})

\* lines 308-311 (str() of an empty cell is "None")
FallbackDateRow(ws) ==
    FirstRow({r \in 1..MaxRow(ws) : Lower(Strip(PyStr(CellValue(ws, r, 1)))) = DATE_WORD})

\* lines 313-322: the numbers of the last column that has any number below the Date row
FallbackLast(ws, date_row, cols) ==
    IF cols = {} THEN <<>>
    ELSE SelectSeq([i \in 1..(MaxRow(ws) - date_row) |->
                       CellValue(ws, date_row + i, LastRow(cols))],
                   IsNumber)

FallbackValues(ws, date_row) ==
    IF date_row = 0 THEN <<>>
    ELSE FallbackLast(ws, date_row,
                      {c \in 2..MaxColumn(ws) :
                          \E rr \in (date_row + 1)..MaxRow(ws) : IsNumber(CellValue(ws, rr, c))})

\* lines 305-334: the by-index chart when no sheet of the month made a chart
FallbackPicture(doc, vals, month_name, site) ==
    IF Len(vals) = 0 THEN doc
    ELSE doc \o << Para(<<>>),
                   FlowPicture(month_name \o <<" ", "f", "l", "o", "w", " ", "d", "a", "t", "a", " ", "o", "f", " ">> \o site,
                               [i \in 1..Len(vals) |-> [day |-> i, v |-> vals[i].v]],
                               NoPeak, <<>>) >>

FallbackChart(doc, ws, month_name, site) ==
    FallbackPicture(doc, FallbackValues(ws, FallbackDateRow(ws)), month_name, site)

\* lines 296-336: one month that has matching sheets
FlowMonthEnd(before_shapes, acc, last_ws, month_name, site) ==
    [doc |-> (IF InlineShapes(acc.doc) > before_shapes THEN acc.doc
              ELSE FallbackChart(acc.doc, last_ws, month_name, site))
             \o <<Heading(<<"Appendix C: Site Notes">>, 1)>>,
     results |-> acc.results]

FlowMonthDoc(doc, sheets, site, peak, m, year) ==
    FlowMonthEnd(InlineShapes(doc),
                 FlowSheets([doc |-> doc \o << PageBreak,
                                               Heading(<<"Appendix B: Flow Data - ">>
                                                       \o MONTHS_FULL[m] \o <<" ">>
                                                       \o StrOfNat(year), 1) >>,
                             results |-> <<>>],
                            sheets, site, peak, m),
                 sheets[Len(sheets)].ws, MONTHS_FULL[m], site)

FlowIdle ==
    /\ flow_pc = "idle"
    /\ flow_wb = <<>>
    /\ flow_site = <<>>
    /\ flow_csv = <<>>
    /\ flow_todo = <<>>
    /\ flow_year = 0
    /\ flow_out = 0
    /\ flow_doc = <<>>
    /\ flow_peak = NoPeak
    /\ flow_results = <<>>
    /\ flow_lookups = <<>>

\* lines 267-286: load the workbook and the document, extract the threshold
FlowLoad ==
    /\ flow_pc = "start"
    /\ flow_doc' = docs[flow_out]
    /\ flow_peak' = extract_peak_capacity(docs[flow_out])
    /\ flow_todo' = SortNums(FlowMonths(flow_csv))
    /\ flow_results' = <<>>
    /\ flow_lookups' = <<>>
    /\ flow_pc' = "months"
    /\ events' = Append(events, [site |-> flow_out, ev |-> "flow_threshold"])
    /\ UNCHANGED <<ymVars, flow_wb, flow_site, flow_csv, flow_year, flow_out, docs, resolverVars,
                   sgsVars, guiVars>>

\* what the loop looks up for the month at the head of flow_todo
FlowLookup ==
    [m |-> flow_todo[1], year |-> flow_year, target |-> FlowTarget(flow_todo[1], flow_year)]

\* lines 292-294: no sheet of the month
FlowMonthMissing ==
    /\ flow_pc = "months"
    /\ Len(flow_todo) > 0
    /\ Len(MatchingSheets(flow_wb, FlowLookup.target)) = 0
    /\ flow_lookups' = Append(flow_lookups, FlowLookup)
    /\ flow_todo' = Tail(flow_todo)
    /\ UNCHANGED <<ymVars, flow_pc, flow_wb, flow_site, flow_csv, flow_year, flow_out, flow_doc,
                   flow_peak, flow_results, docs, resolverVars, sgsVars, guiVars, events>>

\* lines 296-336: the sheets of the month become tables, charts and summaries
FlowMonthOutcome(r) ==
    /\ flow_doc' = r.doc
    /\ flow_results' = flow_results \o r.results

FlowMonth ==
    /\ flow_pc = "months"
    /\ Len(flow_todo) > 0
    /\ Len(MatchingSheets(flow_wb, FlowLookup.target)) > 0
    /\ FlowMonthOutcome(FlowMonthDoc(flow_doc, MatchingSheets(flow_wb, FlowLookup.target),
                                     flow_site, flow_peak, flow_todo[1], FlowLookup.year))
    /\ flow_lookups' = Append(flow_lookups, FlowLookup)
    /\ flow_todo' = Tail(flow_todo)
    /\ events' = Append(events, [site |-> flow_out, ev |-> "flow_sheets"])
    /\ UNCHANGED <<ymVars, flow_pc, flow_wb, flow_site, flow_csv, flow_year, flow_out, flow_peak,
                   docs, resolverVars, sgsVars, guiVars>>

\* line 338: the document is saved
FlowSave ==
    /\ flow_pc = "months"
    /\ Len(flow_todo) = 0
    /\ docs' = [docs EXCEPT ![flow_out] = flow_doc]
    /\ flow_pc' = "exited"
    /\ events' = Append(events, [site |-> flow_out, ev |-> "flow_exit"])
    /\ UNCHANGED <<ymVars, flow_wb, flow_site, flow_csv, flow_todo, flow_year, flow_out, flow_doc,
                   flow_peak, flow_results, flow_lookups, resolverVars, sgsVars, guiVars>>

-----------------------------------------------------------------------------
(* AutoSummary.py: the GUI and run_summary *)

\* the years of the GUI's year buttons
YEARS == {2023, 2024, 2025}

UNASSIGNED == <<"U", "n", "a", "s", "s", "i", "g", "n", "e", "d">>

\* load_sites() failed
NoSites == <<"<error>">>

\* find_excel_for(site_entry) found nothing
NoWorkbook == <<>>

\* line 165
PersonOf(site_entry) ==
    Strip(IF site_entry.person = <<>> THEN UNASSIGNED ELSE site_entry.person)

\* lines 177-183: the seed document of a site
SeedDocument(site, person, picked_month_name, year) ==
    << Heading(site, 0),
       Para(<<"Assigned to: ">> \o person),
       Para(<<"Reporting Month: ">> \o picked_month_name \o <<" ">> \o StrOfNat(year)),
       Para(<<>>),
       Heading(<<"Results and Discussion">>, 1) >>

\* lines 192-193
MonthsCsv(months) == JoinComma([i \in 1..Len(months) |-> StrOfNat(MONTH_TO_NUM(months[i]))])

\* faulty variant: every site is processed, whatever its schedule
Scheduled_always(visits, picked_month_name) == TRUE

\* line 156: picked_month_name in visits
Scheduled(visits, picked_month_name) ==
    \E i \in 1..Len(visits) : visits[i] = picked_month_name

\* faulty variant: the child process is started and not waited for
SubprocessReturned_at_once(pc) == TRUE

\* subprocess.run returns when the child process has exited
SubprocessReturned(pc) == pc = "exited"

GuiIdle ==
    /\ selected_month = 0
    /\ selected_year = 0
    /\ sites = <<>>
    /\ run_pc = "off"
    /\ site_i = 0
    /\ processed_any = FALSE
    /\ span_csv = <<>>
    /\ msg = "none"
    /\ pdfs = <<>>

\* lines 126-130
pick_month(mnum) ==
    /\ run_pc = "gui"
    /\ selected_month' = mnum
    /\ UNCHANGED <<ymVars, selected_year, sites, run_pc, site_i, processed_any, span_csv, msg, pdfs,
                   docs, resolverVars, sgsVars, flowVars, events>>

\* lines 132-136
pick_year(year) ==
    /\ run_pc = "gui"
    /\ selected_year' = year
    /\ UNCHANGED <<ymVars, selected_month, sites, run_pc, site_i, processed_any, span_csv, msg, pdfs,
                   docs, resolverVars, sgsVars, flowVars, events>>

\* lines 139-141
RunSummaryMissingSelection ==
    /\ run_pc = "gui"
    /\ selected_month = 0 \/ selected_year = 0
    /\ msg' = "Missing selection"
    /\ UNCHANGED <<ymVars, selected_month, selected_year, sites, run_pc, site_i, processed_any,
                   span_csv, pdfs, docs, resolverVars, sgsVars, flowVars, events>>

\* lines 143-147
RunSummarySitesError ==
    /\ run_pc = "gui"
    /\ selected_month # 0 /\ selected_year # 0
    /\ sites = NoSites
    /\ msg' = "sites.json error"
    /\ UNCHANGED <<ymVars, selected_month, selected_year, sites, run_pc, site_i, processed_any,
                   span_csv, pdfs, docs, resolverVars, sgsVars, flowVars, events>>

\* lines 149-152
RunSummaryBegin ==
    /\ run_pc = "gui"
    /\ selected_month # 0 /\ selected_year # 0
    /\ sites # NoSites
    /\ current_month' = NUM_TO_MONTH(selected_month)
    /\ processed_any' = FALSE
    /\ site_i' = 1
    /\ run_pc' = "sites"
    /\ UNCHANGED <<ymVars, selected_month, selected_year, sites, span_csv, msg, pdfs, docs,
                   visit_list, prev_visit, span_months, rstep, sgsVars, flowVars, events>>

\* lines 155-157: the site is not scheduled for the picked month
SiteNotScheduled ==
    /\ run_pc = "sites"
    /\ site_i <= Len(sites)
    /\ ~Scheduled(sites[site_i].months, current_month)
    /\ site_i' = site_i + 1
    /\ UNCHANGED <<ymVars, selected_month, selected_year, sites, run_pc, processed_any, span_csv, msg,
                   pdfs, docs, resolverVars, sgsVars, flowVars, events>>

\* lines 159-162: no workbook for the site
SiteNoExcel ==
    /\ run_pc = "sites"
    /\ site_i <= Len(sites)
    /\ Scheduled(sites[site_i].months, current_month)
    /\ sites[site_i].wb = NoWorkbook
    /\ site_i' = site_i + 1
    /\ UNCHANGED <<ymVars, selected_month, selected_year, sites, run_pc, processed_any, span_csv, msg,
                   pdfs, docs, resolverVars, sgsVars, flowVars, events>>

\* lines 164-193: the seed document is saved and the window is worked out
SiteWindow(prev) ==
    /\ prev_visit' = prev
    /\ span_months' = SpanMonths(prev, current_month)
    /\ span_csv' = MonthsCsv(SpanMonths(prev, current_month))

SiteSeed ==
    /\ run_pc = "sites"
    /\ site_i <= Len(sites)
    /\ Scheduled(sites[site_i].months, current_month)
    /\ sites[site_i].wb # NoWorkbook
    /\ processed_any' = TRUE
    /\ docs' = [docs EXCEPT ![site_i] =
                   SeedDocument(sites[site_i].site, PersonOf(sites[site_i]),
                                current_month, selected_year)]
    /\ visit_list' = sites[site_i].months
    /\ SiteWindow(previous_visit_month(sites[site_i].months, current_month))
    /\ run_pc' = "spawn_sgs"
    /\ events' = Append(events, [site |-> site_i, ev |-> "seed"])
    /\ UNCHANGED <<ymVars, selected_month, selected_year, sites, site_i, msg, pdfs, current_month,
                   rstep, sgsVars, flowVars>>

\* lines 196-200: SGSData.py is started on the site's workbook and document
SpawnSGS ==
    /\ run_pc = "spawn_sgs"
    /\ sgs_pc' = "start"
    /\ sgs_wb' = sites[site_i].wb
    /\ sgs_csv' = span_csv
    /\ sgs_year' = IntOfDigits(StrOfNat(selected_year))
    /\ sgs_out' = site_i
    /\ sgs_doc' = <<>>
    /\ sgs_i' = 0
    /\ any_done' = FALSE
    /\ first_section' = TRUE
    /\ sgs_results' = <<>>
    /\ run_pc' = "wait_sgs"
    /\ events' = Append(events, [site |-> site_i, ev |-> "sgs_start"])
    /\ UNCHANGED <<ymVars, selected_month, selected_year, sites, site_i, processed_any, span_csv, msg,
                   pdfs, docs, resolverVars, flowVars>>

\* lines 203-207: once SGSData.py has returned, FlowData.py is started
SpawnFlow ==
    /\ run_pc = "wait_sgs"
    /\ SubprocessReturned(sgs_pc)
    /\ flow_pc' = "start"
    /\ flow_wb' = sites[site_i].wb
    /\ flow_site' = sites[site_i].stem
    /\ flow_csv' = span_csv
    /\ flow_year' = IntOfDigits(StrOfNat(selected_year))
    /\ flow_out' = site_i
    /\ flow_doc' = <<>>
    /\ flow_peak' = NoPeak
    /\ flow_todo' = <<>>
    /\ flow_results' = <<>>
    /\ flow_lookups' = <<>>
    /\ run_pc' = "wait_flow"
    /\ events' = Append(events, [site |-> site_i, ev |-> "flow_start"])
    /\ UNCHANGED <<ymVars, selected_month, selected_year, sites, site_i, processed_any, span_csv, msg,
                   pdfs, docs, resolverVars, sgsVars>>

\* lines 209-210, 221-249: once FlowData.py has returned the document is exported;
\* the export may fail, with a warning
export_docx_to_pdf(saved) ==
    /\ run_pc = "wait_flow"
    /\ SubprocessReturned(flow_pc)
    /\ pdfs' = Append(pdfs, [site |-> site_i, doc |-> docs[site_i], saved |-> saved])
    /\ site_i' = site_i + 1
    /\ run_pc' = "sites"
    /\ events' = Append(events, [site |-> site_i, ev |-> "pdf"])
    /\ UNCHANGED <<ymVars, selected_month, selected_year, sites, processed_any, span_csv, msg, docs,
                   resolverVars, sgsVars, flowVars>>

\* lines 213-220
RunSummaryEnd ==
    /\ run_pc = "sites"
    /\ site_i > Len(sites)
    /\ msg' = IF processed_any THEN "Done" ELSE "Nothing to do"
    /\ run_pc' = "done"
    /\ UNCHANGED <<ymVars, selected_month, selected_year, sites, site_i, processed_any, span_csv, pdfs,
                   docs, resolverVars, sgsVars, flowVars, events>>

-----------------------------------------------------------------------------
(* Specification of the window resolver on its own: every schedule of up to *)
(* MaxSchedLen month names, every target month                              *)

Schedules == UNION {[1..n -> MonthNames] : n \in 1..MaxSchedLen}

InitResolver ==
    /\ visit_list \in Schedules
    /\ current_month \in MonthNames
    /\ prev_visit = PyNone
    /\ span_months = <<>>
    /\ rstep = "input"
    /\ docs = <<>>
    /\ SGSIdle
    /\ FlowIdle
    /\ GuiIdle
    /\ events = <<>>
    /\ YmIdle

FindPrevious ==
    /\ rstep = "input"
    /\ prev_visit' = previous_visit_month(visit_list, current_month)
    /\ rstep' = "prev"
    /\ UNCHANGED <<ymVars, visit_list, current_month, span_months, docs, sgsVars, flowVars, guiVars, events>>

ComputeSpan ==
    /\ rstep = "prev"
    /\ span_months' = SpanMonths(prev_visit, current_month)
    /\ rstep' = "span"
    /\ UNCHANGED <<ymVars, visit_list, current_month, prev_visit, docs, sgsVars, flowVars, guiVars, events>>

NextResolver == FindPrevious \/ ComputeSpan

SpecResolver == InitResolver /\ [][NextResolver]_vars

-----------------------------------------------------------------------------
(* Specification of SGSData.ym_add: a month is moved by delta and moved back *)

MaxDelta == 30

\* the years of the GUI's buttons and the two ends of datetime's range
YmYears == {1} \cup YEARS \cup {9999}

InitYmAdd ==
    /\ ym_year \in YmYears
    /\ ym_month \in 1..12
    /\ ym_delta \in (-MaxDelta)..MaxDelta
    /\ ym_there = [y |-> 0, m |-> 0]
    /\ ym_back = [y |-> 0, m |-> 0]
    /\ ym_pc = "input"
    /\ visit_list = <<>>
    /\ current_month = PyNone
    /\ prev_visit = PyNone
    /\ span_months = <<>>
    /\ rstep = "off"
    /\ docs = <<>>
    /\ SGSIdle
    /\ FlowIdle
    /\ GuiIdle
    /\ events = <<>>

YmThere ==
    /\ ym_pc = "input"
    /\ ym_there' = ym_add(ym_year, ym_month, ym_delta)
    /\ ym_pc' = "there"
    /\ UNCHANGED <<ym_year, ym_month, ym_delta, ym_back, resolverVars, docs, sgsVars, flowVars,
                   guiVars, events>>

YmBack ==
    /\ ym_pc = "there"
    /\ ym_back' = ym_add(ym_there.y, ym_there.m, -ym_delta)
    /\ ym_pc' = "back"
    /\ UNCHANGED <<ym_year, ym_month, ym_delta, ym_there, resolverVars, docs, sgsVars, flowVars,
                   guiVars, events>>

NextYmAdd == YmThere \/ YmBack

SpecYmAdd == InitYmAdd /\ [][NextYmAdd]_vars

-----------------------------------------------------------------------------
(* Inputs of the SGS pass: texts, worksheets and workbooks *)

TXT_DATE == <<"D", "a", "t", "e">>
TXT_CBOD5 == <<"C", "B", "O", "D", "5">>
TXT_CBOD5_MGL == <<"c", "B", "O", "D", "5", " ", "(", "m", "g", "/", "L", ")">>
TXT_TKN == <<"T", "K", "N">>
TXT_TSS == <<"T", "S", "S">>
TXT_UNITS == <<"U", "n", "i", "t", "s">>
TXT_MGL == <<"m", "g", "/", "L">>
TXT_NOTES == <<"N", "o", "t", "e", "s">>
TXT_PH == <<"p", "H">>
TXT_ECA == <<"E", "C", "A">>
TXT_TN == <<"T", "N">>
TXT_LIMIT == <<"L", "i", "m", "i", "t">>
TXT_PCT == <<"(", "%", ")">>
TXT_NO3N == <<"N", "O", "3", "-", "N">>
TXT_BOD == <<"b", "o", "d">>
TXT_DA == <<"D", "a", "-">>
TXT_TE == <<"t", "e">>
TXT_AVERAGE == <<"A", "v", "e", "r", "a", "g", "e">>
TXT_NA == <<"n", "/", "a">>
NAME_RAW == <<"A", "B", "C", " ", "R", "a", "w", " ", "S", "e", "w", "a", "g", "e">>
NAME_FINAL == <<"A", "B", "C", " ", "F", "i", "n", "a", "l", " ", "E", "f", "f", "l", "u", "e", "n", "t">>
NAME_NOTES == <<"N", "o", "t", "e", "s">>
NAME_SITE == <<"A", "B", "C">>
NAME_PERSON == <<"S", "a", "m">>

\* a worksheet in the report convention: header row, units row, data rows
SgsWorksheet(h3, dataRows) ==
    [rows |-> << <<StrV(TXT_DATE), StrV(TXT_CBOD5), h3, StrV(TXT_TKN)>>,
                 <<StrV(TXT_UNITS), StrV(TXT_MGL), StrV(TXT_MGL), StrV(TXT_MGL)>> >>
              \o dataRows]

\* timestamps around every month boundary of four years: first day, mid month,
\* last day at midnight and last day at noon
DateUniverse ==
    UNION { { DateTimeV(y, m, 1, 0), DateTimeV(y, m, 15, 0),
              DateTimeV(y, m, DaysInMonth(y, m), 0), DateTimeV(y, m, DaysInMonth(y, m), 12) }
            : <<y, m>> \in (2022..2025) \X (1..12) }

\* one data row dated anywhere in the universe, against every reference month and year
DateCases ==
    { [wb |-> << [name |-> NAME_RAW,
                  ws |-> SgsWorksheet(StrV(TXT_TSS), << <<d, NumV(5), NumV(7), NumV(9)>> >>)] >>,
       csv |-> StrOfNat(m), year |-> y]
      : <<d, m, y>> \in DateUniverse \X (1..12) \X YEARS }

\* worksheets that are complete (with rows on both sides of both window edges)
\* or that lack one thing the extraction needs
OkSheet ==
    SgsWorksheet(StrV(TXT_TSS),
                 << <<DateTimeV(2023, 9, 30, 0), NumV(4), NumV(3), NumV(2)>>,
                    <<DateTimeV(2023, 10, 1, 0), NumV(5), NumV(7), NumV(9)>>,
                    <<DateTimeV(2024, 3, 31, 0), NumV(6), StrV(TXT_NA), NumV(8)>>,
                    <<DateTimeV(2024, 4, 1, 0), NumV(1), NumV(1), NumV(1)>> >>)

NoHeaderSheet ==
    [rows |-> << <<StrV(TXT_DATE), StrV(TXT_NOTES)>>,
                 <<DateTimeV(2024, 1, 15, 0), StrV(TXT_NA)>> >>]

NoDatesSheet ==
    SgsWorksheet(StrV(TXT_TSS),
                 << <<StrV(TXT_AVERAGE), NumV(5), NumV(7), NumV(9)>>,
                    <<NoneV, NumV(6), NumV(7), NumV(8)>> >>)

OutOfWindowSheet ==
    SgsWorksheet(StrV(TXT_TSS), << <<DateTimeV(2022, 1, 15, 0), NumV(5), NumV(7), NumV(9)>> >>)

NoNumericSheet ==
    SgsWorksheet(StrV(TXT_TSS), << <<DateTimeV(2024, 2, 15, 0), StrV(TXT_NA), NoneV, NoneV>> >>)

StructSheets == {OkSheet, NoHeaderSheet, NoDatesSheet, OutOfWindowSheet, NoNumericSheet}

SheetNames == {NAME_RAW, NAME_FINAL, NAME_NOTES}

NamedSheets == { [name |-> n, ws |-> w] : <<n, w>> \in SheetNames \X StructSheets }

StructCases ==
    { [wb |-> wb, csv |-> csv, year |-> 2024]
      : <<wb, csv>> \in (UNION {[1..n -> NamedSheets] : n \in 1..MaxSheets})
                        \X { StrOfNat(3),
                             JoinComma(<<StrOfNat(11), StrOfNat(12), StrOfNat(1),
                                         StrOfNat(2), StrOfNat(3)>>),
                             <<>> } }

\* header texts put together from two pieces, and two non-text header cells
HeaderPieces ==
    { <<>>, TXT_CBOD5_MGL, TXT_TKN, TXT_UNITS, TXT_DATE, TXT_TSS, <<" ">>, TXT_PH,
      TXT_ECA, TXT_TN, TXT_LIMIT, TXT_PCT, TXT_NO3N, TXT_BOD, TXT_DA, TXT_TE }

HeaderCells ==
    { StrV(a \o b) : <<a, b>> \in HeaderPieces \X HeaderPieces } \cup {NoneV, NumV(5)}

HeaderCases ==
    { [wb |-> << [name |-> NAME_RAW,
                  ws |-> SgsWorksheet(h, << <<DateTimeV(2024, 2, 15, 0),
                                             NumV(5), NumV(7), NumV(9)>> >>)] >>,
       csv |-> StrOfNat(3), year |-> 2024]
      : h \in HeaderCells }

\* worksheets whose rows are out of order, whose cells are not all numbers, whose
\* date cells are not all dates, and whose header row and date column are in
\* unusual places or beyond the scanned rows and columns
TXT_12 == <<"1", "2">>
TXT_BLANKS == <<" ", " ">>
TXT_UPDATED == <<"U", "p", "d", "a", "t", "e", "d">>
TXT_SAMPLED == <<"S", "a", "m", "p", "l", "e", "d">>
TXT_FEB31 == <<"3", "1", "/", "0", "2", "/", "2", "0", "2", "4">>
TXT_YM == <<"2", "0", "2", "4", "-", "0", "3">>

Upper(s) == [i \in 1..Len(s) |-> UpperChar(s[i])]

UnorderedSheet ==
    SgsWorksheet(StrV(TXT_TSS),
                 << <<DateTimeV(2024, 3, 15, 0), NumV(6), StrV(TXT_NA), NumV(8)>>,
                    <<DateTimeV(2023, 11, 1, 0), NoneV, NumV(7), NumV(9)>>,
                    <<DateTimeV(2024, 1, 15, 0), StrV(TXT_12), NumV(3), NoneV>>,
                    <<DateTimeV(2023, 11, 1, 0), NumV(4), NumV(5), StrV(TXT_NA)>>,
                    <<DateTimeV(2024, 2, 15, 0), NumV(2), NoneV, NumV(1)>> >>)

\* the TSS column holds no number in the window, only texts
TextOnlyColumnSheet ==
    SgsWorksheet(StrV(TXT_TSS),
                 << <<DateTimeV(2024, 2, 15, 0), NumV(6), StrV(TXT_12), NumV(8)>>,
                    <<DateTimeV(2024, 1, 15, 0), NumV(4), StrV(TXT_NA), NoneV>>,
                    <<DateTimeV(2022, 1, 15, 0), NumV(4), NumV(5), NumV(6)>> >>)

\* date cells that are no dates: empty, blank, the labels in three letter cases,
\* texts no format matches, and times of day
RejectedDateCells ==
    { NoneV, StrV(<<>>), StrV(TXT_BLANKS), StrV(TXT_NA), StrV(TXT_TSS), StrV(TXT_FEB31),
      StrV(TXT_YM), TimeV(0), TimeV(9), NumV(0) }
    \cup UNION { {StrV(l), StrV(Upper(l)), StrV(Title(l)), StrV(<<" ">> \o Title(l) \o <<" ">>)}
                 : l \in NON_DATE_LABELS }

RejectSheets ==
    { SgsWorksheet(StrV(TXT_TSS),
                   << <<DateTimeV(2024, 1, 15, 0), NumV(1), NumV(2), NumV(3)>>,
                      <<x, NumV(5), NumV(7), NumV(9)>>,
                      <<DateV(2024, 2, 15), NumV(4), NumV(5), NumV(6)>> >>)
      : x \in RejectedDateCells }

\* a row with one parameter name above the header row, and a second header-like row
TwoHeaderSheet ==
    [rows |-> << <<StrV(TXT_DATE), StrV(TXT_TSS), StrV(TXT_NOTES), NoneV>>,
                 <<StrV(TXT_DATE), StrV(TXT_CBOD5), StrV(TXT_TSS), StrV(TXT_TKN)>>,
                 <<StrV(TXT_UNITS), StrV(TXT_MGL), StrV(TXT_MGL), StrV(TXT_MGL)>>,
                 <<DateTimeV(2024, 1, 15, 0), NumV(1), NumV(2), NumV(3)>>,
                 <<StrV(TXT_DATE), StrV(TXT_CBOD5), StrV(TXT_TKN), StrV(TXT_TSS)>>,
                 <<DateTimeV(2024, 2, 15, 0), NumV(4), NumV(5), NumV(6)>> >>]

\* the header row at row k, under rows with one parameter name each
LateHeaderSheet(k) ==
    [rows |-> [r \in 1..(k + 1) |->
                 IF r < k THEN <<NoneV, StrV(TXT_TSS), NoneV, NoneV>>
                 ELSE IF r = k
                 THEN <<StrV(TXT_DATE), StrV(TXT_CBOD5), StrV(TXT_TSS), StrV(TXT_TKN)>>
                 ELSE <<DateTimeV(2024, 2, 15, 0), NumV(5), NumV(7), NumV(9)>>]]

\* 81 columns: two parameter names at columns hit_c and hit_c + 1, "Date" at date_c
WideSheet(hit_c, date_c) ==
    [rows |-> << [c \in 1..81 |->
                    IF c = date_c THEN StrV(TXT_DATE)
                    ELSE IF c = hit_c THEN StrV(TXT_TSS)
                    ELSE IF c = hit_c + 1 THEN StrV(TXT_TKN)
                    ELSE NoneV],
                 [c \in 1..81 |->
                    IF c = date_c THEN DateTimeV(2024, 2, 15, 0)
                    ELSE IF c \in {hit_c, hit_c + 1} THEN NumV(c)
                    ELSE NoneV] >>]

\* "Updated" in the first row, to the right; "Date" in the second row, to the left
DateWordOrderSheet ==
    [rows |-> << <<StrV(TXT_TSS), StrV(TXT_CBOD5), StrV(TXT_UPDATED), StrV(TXT_TKN)>>,
                 <<StrV(TXT_DATE), StrV(TXT_MGL), NoneV, StrV(TXT_MGL)>>,
                 <<DateTimeV(2024, 2, 15, 0), NumV(5), NumV(7), NumV(9)>> >>]

\* 61 rows: "Date" only at row k, one date in the first 40 rows (column 3), and the
\* dates of column 1 below row 40
LateDateWordSheet(k) ==
    [rows |-> [r \in 1..61 |->
                 IF r = k THEN <<NoneV, NoneV, NoneV, StrV(TXT_DATE)>>
                 ELSE IF r = 1
                 THEN <<StrV(TXT_SAMPLED), StrV(TXT_CBOD5), StrV(TXT_TSS), StrV(TXT_TKN)>>
                 ELSE IF r < 40 THEN <<NoneV, NoneV, NoneV, NoneV>>
                 ELSE IF r = 40 THEN <<NoneV, NoneV, DateTimeV(2024, 1, 15, 0), NoneV>>
                 ELSE <<DateTimeV(2024, 2, r - 40, 0), NumV(5), NoneV, NumV(9)>>]]

\* no cell says "date": every filling of two rows by three columns with a date, a
\* number or a text
ScoreCells == {DateTimeV(2024, 2, 15, 0), NumV(7), StrV(TXT_NA)}

ScoreSheets ==
    { [rows |-> << <<StrV(TXT_CBOD5), StrV(TXT_TSS), StrV(TXT_TKN)>>, a, b >>]
      : <<a, b>> \in [1..3 -> ScoreCells] \X [1..3 -> ScoreCells] }

\* no cell says "date" and no cell is a date or a number
NoAnchorSheet ==
    [rows |-> << <<StrV(TXT_SAMPLED), StrV(TXT_CBOD5), StrV(TXT_TSS), StrV(TXT_TKN)>>,
                 <<StrV(TXT_UNITS), StrV(TXT_MGL), StrV(TXT_MGL), StrV(TXT_MGL)>>,
                 <<StrV(TXT_NA), StrV(TXT_NA), NoneV, StrV(TXT_NA)>>,
                 <<NoneV, TimeV(9), StrV(TXT_NA), NoneV>> >>]

\* a worksheet nothing was written to: max_row = max_column = 1
EmptySheet == [rows |-> << <<NoneV>> >>]

LayoutSheets ==
    { UnorderedSheet, TextOnlyColumnSheet, TwoHeaderSheet, DateWordOrderSheet, NoAnchorSheet,
      EmptySheet, LateHeaderSheet(80), LateHeaderSheet(81), LateDateWordSheet(60),
      LateDateWordSheet(61), WideSheet(79, 1), WideSheet(80, 1), WideSheet(2, 60),
      WideSheet(2, 61) }
    \cup RejectSheets \cup ScoreSheets

LayoutCases ==
    { [wb |-> << [name |-> NAME_RAW, ws |-> w] >>, csv |-> StrOfNat(3), year |-> 2024]
      : w \in LayoutSheets }

-----------------------------------------------------------------------------
(* Specification of the SGS pass run on its own against a seeded document *)

SGSInput(case) ==
    /\ sgs_wb = case.wb
    /\ sgs_csv = case.csv
    /\ sgs_year = case.year

InitSGS ==
    /\ \/ \E case \in DateCases : SGSInput(case)
       \/ \E case \in StructCases : SGSInput(case)
       \/ \E case \in HeaderCases : SGSInput(case)
       \/ \E case \in LayoutCases : SGSInput(case)
    /\ docs = << SeedDocument(NAME_SITE, NAME_PERSON, March, 2024) >>
    /\ sgs_out = 1
    /\ sgs_pc = "start"
    /\ sgs_doc = <<>>
    /\ sgs_i = 0
    /\ any_done = FALSE
    /\ first_section = TRUE
    /\ sgs_results = <<>>
    /\ visit_list = <<>>
    /\ current_month = PyNone
    /\ prev_visit = PyNone
    /\ span_months = <<>>
    /\ rstep = "off"
    /\ FlowIdle
    /\ GuiIdle
    /\ events = <<>>
    /\ YmIdle

NextSGS == SGSLoad \/ SGSPassOver \/ SGSSheet \/ SGSSave

SpecSGS == InitSGS /\ [][NextSGS]_vars

-----------------------------------------------------------------------------
(* Inputs of the Flow pass: documents, worksheets and workbooks *)

MaxFlowRows == 5

TXT_FLOW == <<"F", "l", "o", "w">>
TXT_TOTAL == <<"T", "o", "t", "a", "l">>
TXT_DAY == <<"D", "a", "y">>
TXT_VOLUME == <<"V", "o", "l", "u", "m", "e">>
TXT_PUMP1 == <<"P", "u", "m", "p", " ", "1">>
TXT_DAILY_TOTAL == <<"D", "a", "i", "l", "y", " ", "T", "o", "t", "a", "l">>
TXT_01_MAR_24 == <<"0", "1", "-", "M", "a", "r", "-", "2", "4">>
TXT_2024_03_02 == <<"2", "0", "2", "4", "-", "0", "3", "-", "0", "2">>
NAME_MAR24 == <<"M", "a", "r", " ", "2", "4">>
NAME_MAR24_B == <<"A", "B", "C", " ", "m", "a", "r", " ", "2", "4", " ", "(", "2", ")">>
NAME_FEB24 == <<"F", "e", "b", " ", "2", "4">>
TXT_CAPACITY_26 == <<"T", "h", "e", " ", "p", "e", "a", "k", " ", "r", "a", "t", "e", "d", " ", "c", "a", "p", "a", "c", "i", "t", "y", " ", "o", "f", " ", "2", "6", " ", "L", "/", "d", "a", "y", " ", "a", "p", "p", "l", "i", "e", "s", ".">>
TXT_CAPACITY_1000 == <<"P", "e", "a", "k", " ", "d", "e", "s", "i", "g", "n", " ", "d", "a", "i", "l", "y", " ", "f", "l", "o", "w", " ", "r", "a", "t", "e", "d", " ", "c", "a", "p", "a", "c", "i", "t", "y", " ", "o", "f", " ", "t", "h", "e", " ", "s", "y", "s", "t", "e", "m", ":", " ", "1", ",", "0", "0", "0", " ", "L", "/", "d", "a", "y">>
TXT_SUBSURFACE == <<"F", "l", "o", "w", " ", "D", "i", "s", "c", "h", "a", "r", "g", "e", "d", " ", "t", "o", " ", "t", "h", "e", " ", "S", "u", "b", "s", "u", "r", "f", "a", "c", "e", " ", "D", "i", "s", "p", "o", "s", "a", "l", " ", "S", "y", "s", "t", "e", "m">>

\* a flow worksheet in the report convention: the Date/Flow header, one row a
\* day from 1 March 2024, and the Average row
FlowWorksheet(values, average) ==
    [rows |-> << <<StrV(TXT_DATE), StrV(TXT_FLOW)>> >>
              \o [i \in 1..Len(values) |-> <<DateTimeV(2024, 3, i, 0), NumV(values[i])>>]
              \o << <<StrV(TXT_AVERAGE), NumV(average)>> >>]

\* daily flows around a threshold of 26: below 90%, just above 90%, equal, above
FlowValues == {23, 24, 26, 27}

\* the non-decreasing sequences of 1..MaxFlowRows daily flows
FlowSeries ==
    UNION { {s \in [1..n -> FlowValues] : \A i \in 1..(n - 1) : s[i] <= s[i + 1]}
            : n \in 1..MaxFlowRows }

\* documents with and without a threshold, with and without the subsurface heading
FlowDocs ==
    { << Heading(NAME_SITE, 0), Para(TXT_CAPACITY_26) >>,
      << Heading(NAME_SITE, 0), Para(TXT_SUBSURFACE), Para(<<>>), Para(TXT_CAPACITY_26) >>,
      << Heading(NAME_SITE, 0), Para(TXT_CAPACITY_1000) >>,
      << Heading(NAME_SITE, 0), Para(<<"Assigned to: ">> \o NAME_PERSON) >> }

FlowValueCases ==
    { [wb |-> << [name |-> NAME_MAR24, ws |-> FlowWorksheet(s, a)] >>,
       csv |-> StrOfNat(3), year |-> 2024, doc |-> d]
      : <<s, a, d>> \in FlowSeries \X {24, 27} \X FlowDocs }

\* worksheets that depart from the convention
FlowNoAverageSheet ==
    [rows |-> << <<StrV(TXT_DATE), StrV(TXT_FLOW)>>,
                 <<DateTimeV(2024, 3, 1, 0), NumV(27)>>,
                 <<DateTimeV(2024, 3, 2, 0), NumV(23)>> >>]

FlowNoDateSheet ==
    [rows |-> << <<StrV(TXT_DAY), StrV(TXT_FLOW)>>,
                 <<NumV(1), NumV(27)>>,
                 <<StrV(TXT_AVERAGE), NumV(27)>> >>]

FlowPumpSheet ==
    [rows |-> << <<StrV(TXT_DATE), StrV(TXT_PUMP1), StrV(TXT_FLOW), StrV(TXT_DAILY_TOTAL),
                   StrV(TXT_NOTES)>>,
                 <<DateTimeV(2024, 3, 1, 0), NumV(5), NumV(27), NumV(30), NoneV>>,
                 <<DateTimeV(2024, 3, 2, 0), NumV(5), NumV(26), NumV(30), NoneV>>,
                 <<StrV(TXT_AVERAGE), NumV(5), NumV(27), NumV(30), NoneV>> >>]

FlowTextDatesSheet ==
    [rows |-> << <<StrV(TXT_DATE), StrV(TXT_VOLUME)>>,
                 <<StrV(TXT_01_MAR_24), NumV(30)>>,
                 <<StrV(TXT_2024_03_02), NumV(20)>>,
                 <<StrV(TXT_TOTAL), NumV(50)>>,
                 <<StrV(TXT_AVERAGE), NumV(25)>> >>]

FlowUndatedSheet ==
    [rows |-> << <<StrV(TXT_DATE), StrV(TXT_FLOW)>>,
                 <<StrV(TXT_NA), NumV(30)>>,
                 <<NoneV, NumV(20)>>,
                 <<StrV(TXT_AVERAGE), StrV(TXT_NA)>> >>]

FlowStructSheets ==
    { FlowNoAverageSheet, FlowNoDateSheet, FlowPumpSheet, FlowTextDatesSheet,
      FlowUndatedSheet, FlowWorksheet(<<27, 30>>, 28) }

FlowNamedSheets ==
    { [name |-> n, ws |-> w]
      : <<n, w>> \in {NAME_MAR24, NAME_MAR24_B, NAME_FEB24} \X FlowStructSheets }

FlowStructCases ==
    { [wb |-> wb, csv |-> csv, year |-> 2024, doc |-> d]
      : <<wb, csv, d>> \in
          (UNION {[1..n -> FlowNamedSheets] : n \in 1..MaxSheets})
          \X { StrOfNat(3), JoinComma(<<StrOfNat(3), StrOfNat(2)>>) }
          \X { << Heading(NAME_SITE, 0), Para(TXT_SUBSURFACE), Para(TXT_CAPACITY_26) >>,
               << Heading(NAME_SITE, 0) >> } }

-----------------------------------------------------------------------------
(* Specification of the Flow pass run on its own against an existing document *)

FlowInput(case) ==
    /\ flow_wb = case.wb
    /\ flow_csv = case.csv
    /\ flow_year = case.year
    /\ docs = <<case.doc>>

InitFlow ==
    /\ \/ \E case \in FlowValueCases : FlowInput(case)
       \/ \E case \in FlowStructCases : FlowInput(case)
    /\ flow_pc = "start"
    /\ flow_site = NAME_SITE
    /\ flow_out = 1
    /\ flow_doc = <<>>
    /\ flow_peak = NoPeak
    /\ flow_todo = <<>>
    /\ flow_results = <<>>
    /\ flow_lookups = <<>>
    /\ visit_list = <<>>
    /\ current_month = PyNone
    /\ prev_visit = PyNone
    /\ span_months = <<>>
    /\ rstep = "off"
    /\ SGSIdle
    /\ GuiIdle
    /\ events = <<>>
    /\ YmIdle

NextFlow == FlowLoad \/ FlowMonthMissing \/ FlowMonth \/ FlowSave

SpecFlow == InitFlow /\ [][NextFlow]_vars

-----------------------------------------------------------------------------
(* Inputs of a batch: the site registry and the workbooks beside it *)

\* the number of entries of sites.json
NumSites == 2

NAME_NORTH == <<"N", "o", "r", "t", "h", " ", "L", "a", "g", "o", "o", "n">>
NAME_NL_STEM == <<"N", "L", "-", "2", "0", "2", "4">>
NAME_XYZ == <<"X", "Y", "Z">>
NAME_OLD == <<"O", "l", "d", " ", "M", "i", "l", "l">>
NAME_PAT == <<" ", "P", "a", "t", " ">>
NAME_DEC23 == <<"D", "e", "c", " ", "2", "3">>
NAME_JAN24 == <<"J", "a", "n", " ", "2", "4">>
NAME_NOV23 == <<"N", "o", "v", " ", "2", "3">>

\* ABC: visited in January and June; its workbook has a raw sewage sheet and the
\* flow sheets of December 2023 and January 2024
SiteABC ==
    [site |-> NAME_SITE, person |-> NAME_PAT, months |-> <<January, June>>,
     stem |-> NAME_SITE,
     wb |-> << [name |-> NAME_RAW, ws |-> OkSheet],
               [name |-> NAME_DEC23, ws |-> FlowWorksheet(<<23, 27>>, 25)],
               [name |-> NAME_JAN24, ws |-> FlowWorksheet(<<24, 26>>, 25)] >>]

\* North Lagoon: nobody assigned, visited in March, June and November; an
\* explicitly named workbook with a sheet that has no header row, a final
\* effluent sheet and the flow sheets of November 2023 and March 2024
SiteNorth ==
    [site |-> NAME_NORTH, person |-> <<>>, months |-> <<March, June, November>>,
     stem |-> NAME_NL_STEM,
     wb |-> << [name |-> NAME_RAW, ws |-> NoHeaderSheet],
               [name |-> NAME_FINAL, ws |-> OkSheet],
               [name |-> NAME_NOV23, ws |-> FlowWorksheet(<<27>>, 27)],
               [name |-> NAME_MAR24, ws |-> FlowTextDatesSheet] >>]

\* XYZ: visited in March, but no workbook is found for it
SiteXYZ ==
    [site |-> NAME_XYZ, person |-> NAME_PERSON, months |-> <<March>>,
     stem |-> NAME_XYZ, wb |-> NoWorkbook]

\* Old Mill: an entry without "months"
SiteOldMill ==
    [site |-> NAME_OLD, person |-> NAME_PERSON, months |-> <<>>,
     stem |-> NAME_OLD,
     wb |-> << [name |-> NAME_RAW, ws |-> OkSheet] >>]

SiteEntries == {SiteABC, SiteNorth, SiteXYZ, SiteOldMill}

\* sites.json: NumSites different entries in any order, or a file that does not load
Registries ==
    {r \in [1..NumSites -> SiteEntries] : \A i, j \in 1..NumSites : i # j => r[i] # r[j]}
    \cup {NoSites}

-----------------------------------------------------------------------------
(* Specification of the program: the GUI, one batch of run_summary, and the *)
(* two child processes it starts for every processed site                   *)

Init ==
    /\ sites \in Registries
    /\ selected_month = 0
    /\ selected_year = 0
    /\ run_pc = "gui"
    /\ site_i = 0
    /\ processed_any = FALSE
    /\ span_csv = <<>>
    /\ msg = "none"
    /\ pdfs = <<>>
    /\ docs = [i \in 1..Len(sites) |-> <<>>]
    /\ visit_list = <<>>
    /\ current_month = PyNone
    /\ prev_visit = PyNone
    /\ span_months = <<>>
    /\ rstep = "off"
    /\ SGSIdle
    /\ FlowIdle
    /\ events = <<>>
    /\ YmIdle

Next ==
    \/ \E mnum \in 1..12 : pick_month(mnum)
    \/ \E year \in YEARS : pick_year(year)
    \/ RunSummaryMissingSelection
    \/ RunSummarySitesError
    \/ RunSummaryBegin
    \/ SiteNotScheduled
    \/ SiteNoExcel
    \/ SiteSeed
    \/ SpawnSGS
    \/ SGSLoad
    \/ SGSPassOver
    \/ SGSSheet
    \/ SGSSave
    \/ SpawnFlow
    \/ FlowLoad
    \/ FlowMonthMissing
    \/ FlowMonth
    \/ FlowSave
    \/ \E saved \in BOOLEAN : export_docx_to_pdf(saved)
    \/ RunSummaryEnd

Spec == Init /\ [][Next]_vars

-----------------------------------------------------------------------------
(* C1 *)

\* calendar successor of a month number, written without the walk
SuccNum(n) == (n % 12) + 1

\* C1: for a target that occurs in the schedule, previous_visit_month is the
\* entry cyclically preceding the target's first occurrence, and the span is the
\* calendar walk predecessor..target: starts at the predecessor, ends at the
\* target, each element the calendar successor of the one before, no repeats,
\* length 1..12; with the two worked examples of the specification.
C1_ScheduleWindow ==
    /\ (rstep # "input" /\ \E i \in 1..Len(visit_list) : visit_list[i] = current_month) =>
          LET idx == ListIndex(visit_list, current_month)
              n   == Len(visit_list)
          IN  prev_visit = visit_list[((idx + n - 2) % n) + 1]
    /\ (rstep = "span" /\ \E i \in 1..Len(visit_list) : visit_list[i] = current_month) =>
          /\ Len(span_months) \in 1..12
          /\ span_months[1] = prev_visit
          /\ span_months[Len(span_months)] = current_month
          /\ \A k \in 1..(Len(span_months) - 1) :
                MONTH_TO_NUM(span_months[k + 1]) = SuccNum(MONTH_TO_NUM(span_months[k]))
          /\ \A j, k \in 1..Len(span_months) : j # k => span_months[j] # span_months[k]
    /\ (rstep = "span" /\ visit_list = <<March, July, November>>
                       /\ current_month = November) =>
          span_months = <<July, August, September, October, November>>
    /\ (rstep = "span" /\ visit_list = <<January, June>> /\ current_month = January) =>
          span_months = <<June, July, August, September, October,
                          November, December, January>>

\* witness: the wrap-around example has been resolved to its 8-month walk
C1_Witness ==
    /\ rstep = "span"
    /\ visit_list = <<January, June>>
    /\ current_month = January
    /\ prev_visit = June
    /\ Len(span_months) = 8

-----------------------------------------------------------------------------
(* C2 *)

\* C2: for every reference (month, year) the SGS pass uses, the window starts at
\* the first day of the month five months before the reference month (in the
\* previous year when the reference month is May or earlier) and ends at the last
\* day of the reference month, six calendar months in all; reference (3, 2024)
\* gives 1 Oct 2023 through 31 Mar 2024; when month tokens are passed the
\* reference is the last token under the passed year; and no row dated before the
\* window's first month or after the reference month is in the table or in any
\* series the sheet adds to the document.
C2_FixedLookback ==
    \A n \in 1..Len(sgs_results) :
        LET e   == sgs_results[n]
            ref == e.scan.sel
            lo  == ref.y * 12 + ref.m - 5
            hi  == ref.y * 12 + ref.m
            outside == {dt \in {e.scan.dated[j].dt : j \in 1..Len(e.scan.dated)} :
                           dt.y * 12 + dt.m < lo \/ dt.y * 12 + dt.m > hi}
            added == SubSeq(e.after, Len(e.before) + 1, Len(e.after))
        IN  ref # NoSel =>
              /\ ref.m \in 1..12
              /\ e.scan.start_dt.d = 1 /\ e.scan.start_dt.hh = 0
              /\ e.scan.start_dt.y * 12 + e.scan.start_dt.m = lo
              /\ e.scan.start_dt.m \in 1..12
              /\ (ref.m <= 5) => /\ e.scan.start_dt.y = ref.y - 1
                                 /\ e.scan.start_dt.m = ref.m + 7
              /\ (ref.m > 5) => /\ e.scan.start_dt.y = ref.y
                                /\ e.scan.start_dt.m = ref.m - 5
              /\ e.scan.end_dt = DateTimeV(ref.y, ref.m, DaysInMonth(ref.y, ref.m), 0)
              /\ (e.scan.end_dt.y * 12 + e.scan.end_dt.m)
                    - (e.scan.start_dt.y * 12 + e.scan.start_dt.m) + 1 = 6
              /\ (ref = [m |-> 3, y |-> 2024]) =>
                    /\ e.scan.start_dt = DateTimeV(2023, 10, 1, 0)
                    /\ e.scan.end_dt = DateTimeV(2024, 3, 31, 0)
              /\ (sgs_csv # <<>>) => ref.y = sgs_year /\ StrOfNat(ref.m) = LastN(sgs_csv, Len(StrOfNat(ref.m)))
              /\ \A b \in 1..Len(added) :
                    /\ added[b].k = "table" =>
                          \A r \in 1..Len(added[b].rows) : \A dt \in outside :
                              added[b].rows[r][1] # StrfDayMonYear(dt)
                    /\ added[b].k = "picture" =>
                          \A sx \in 1..Len(added[b].series) :
                              \A px \in 1..Len(added[b].series[sx].pts) :
                                  added[b].series[sx].pts[px].dt \notin outside

\* witness: reference (3, 2024) on a sheet with rows dated 30 Sep 2023 (one day
\* before the window) and 1 Apr 2024 (one day after it): the sheet's table has
\* exactly the two rows of 1 Oct 2023 and 31 Mar 2024
C2_Witness ==
    \E n \in 1..Len(sgs_results) :
        /\ sgs_results[n].ok
        /\ sgs_results[n].scan.sel = [m |-> 3, y |-> 2024]
        /\ \E j \in 1..Len(sgs_results[n].scan.dated) :
              sgs_results[n].scan.dated[j].dt = DateTimeV(2023, 9, 30, 0)
        /\ \E j \in 1..Len(sgs_results[n].scan.dated) :
              sgs_results[n].scan.dated[j].dt = DateTimeV(2024, 4, 1, 0)
        /\ \E b \in 1..Len(sgs_results[n].after) :
              /\ b > Len(sgs_results[n].before)
              /\ sgs_results[n].after[b].k = "table"
              /\ Len(sgs_results[n].after[b].rows) = 2

-----------------------------------------------------------------------------
(* C3 *)

\* C3: every dated row whose (year, month) is one of the six calendar months of
\* the window is among the rows the table and the series are built from, whatever
\* its time of day, and only those rows are.
C3_RowScopeComplete ==
    \A n \in 1..Len(sgs_results) :
        LET e   == sgs_results[n]
            ref == e.scan.sel
            lo  == ref.y * 12 + ref.m - 5
            hi  == ref.y * 12 + ref.m
        IN  ref # NoSel =>
              \A j \in 1..Len(e.scan.dated) :
                  (e.scan.dated[j].dt.y * 12 + e.scan.dated[j].dt.m \in lo..hi)
                  <=> (\E i \in 1..Len(e.scan.inwin) : e.scan.inwin[i].r = e.scan.dated[j].r)

-----------------------------------------------------------------------------
(* C4 *)

\* C4: while the Flow pass of a site with a schedule-relative window runs, the
\* months it has looked up so far are the first months of the calendar walk
\* predecessor..target, in that order, and each is looked up under its own year:
\* when the predecessor's month number is greater than the target's, the months
\* from the predecessor through December under the year before the reporting
\* year, and every other month under the reporting year.
C4_WindowYears ==
    (run_pc = "wait_flow" /\ flow_pc \in {"months", "exited"} /\ prev_visit # PyNone) =>
       LET wraps == MONTH_TO_NUM(prev_visit) > MONTH_TO_NUM(current_month)
           yearOf(mn) == IF wraps /\ mn >= MONTH_TO_NUM(prev_visit)
                         THEN selected_year - 1 ELSE selected_year
       IN  /\ Len(flow_lookups) <= Len(span_months)
           /\ \A i \in 1..Len(flow_lookups) :
                 /\ flow_lookups[i].m = MONTH_TO_NUM(span_months[i])
                 /\ flow_lookups[i].year = yearOf(flow_lookups[i].m)
                 /\ flow_lookups[i].target
                       = FlowTarget(flow_lookups[i].m, yearOf(flow_lookups[i].m))

-----------------------------------------------------------------------------
(* C5 *)

\* C5 as stated: when the batch is over, every site whose schedule does not
\* contain the picked month (and that has a workbook) has had its extraction
\* passes started.
C5_MissRunsExtraction ==
    (run_pc = "done" /\ sites # NoSites) =>
       \A i \in 1..Len(sites) :
           (~Scheduled(sites[i].months, current_month) /\ sites[i].wb # NoWorkbook) =>
              /\ previous_visit_month(sites[i].months, current_month) = PyNone
              /\ \E n \in 1..Len(events) : events[n] = [site |-> i, ev |-> "sgs_start"]
              /\ \E n \in 1..Len(events) : events[n] = [site |-> i, ev |-> "flow_start"]

\* C5: for a site whose schedule does not contain the picked month,
\* previous_visit_month reports no predecessor and lines 187-190 would give the
\* single-month window, without an error; but run_summary passes such a site
\* over: no document is created for it, neither extraction pass is started, no
\* PDF is exported, and the batch goes on with the next site and ends with its
\* message.
C5_MissIsPassedOver ==
    (run_pc \notin {"gui", "off"} /\ sites # NoSites) =>
       /\ \A i \in 1..Len(sites) :
             ~(\E j \in 1..Len(sites[i].months) : sites[i].months[j] = current_month) =>
                /\ previous_visit_month(sites[i].months, current_month) = PyNone
                /\ SpanMonths(previous_visit_month(sites[i].months, current_month),
                              current_month) = <<current_month>>
                /\ MonthsCsv(SpanMonths(PyNone, current_month)) = StrOfNat(selected_month)
                /\ docs[i] = <<>>
                /\ \A n \in 1..Len(events) : events[n].site # i
                /\ \A n \in 1..Len(pdfs) : pdfs[n].site # i
                /\ ~(site_i = i /\ run_pc # "sites")
       /\ run_pc = "done" =>
             /\ site_i = Len(sites) + 1
             /\ msg \in {"Done", "Nothing to do"}
             /\ \A i \in 1..Len(sites) :
                   ((\E j \in 1..Len(sites[i].months) : sites[i].months[j] = current_month)
                       /\ sites[i].wb # NoWorkbook)
                   => \E n \in 1..Len(pdfs) : pdfs[n].site = i

\* witness: the batch is over; its first site was not scheduled for the picked
\* month although it has a workbook, and was passed over; its second site was
\* processed
C5_Witness ==
    /\ run_pc = "done"
    /\ sites # NoSites
    /\ ~Scheduled(sites[1].months, current_month)
    /\ sites[1].wb # NoWorkbook
    /\ docs[1] = <<>>
    /\ Len(pdfs) = 1
    /\ pdfs[1].site = 2
    /\ msg = "Done"

-----------------------------------------------------------------------------
(* C6 *)

\* the steps of one site that may directly follow one another
StepPairs ==
    { <<"seed", "sgs_start">>, <<"sgs_start", "sgs_load">>,
      <<"sgs_load", "sgs_sheet">>, <<"sgs_load", "sgs_exit">>,
      <<"sgs_sheet", "sgs_sheet">>, <<"sgs_sheet", "sgs_exit">>,
      <<"sgs_exit", "flow_start">>, <<"flow_start", "flow_threshold">>,
      <<"flow_threshold", "flow_sheets">>, <<"flow_threshold", "flow_exit">>,
      <<"flow_sheets", "flow_sheets">>, <<"flow_sheets", "flow_exit">>,
      <<"flow_exit", "pdf">> }

\* C6: the steps of a site happen in the order seed document saved, SGS pass
\* started, SGS pass exited, Flow pass started, threshold extracted, flow sheets
\* written, Flow pass exited, PDF export; a site's first step comes only after
\* the PDF export of the site before it; while a pass runs, run_summary waits for
\* it and the other pass is not running; the SGS pass loads the seed document;
\* and the threshold the Flow pass uses is the one of the document as the SGS
\* pass saved it.
C6_PerSiteOrdering ==
    /\ Len(events) > 0 => events[1].ev = "seed"
    /\ \A n \in 1..(Len(events) - 1) :
          \/ /\ events[n].site = events[n + 1].site
             /\ <<events[n].ev, events[n + 1].ev>> \in StepPairs
          \/ /\ events[n].ev = "pdf"
             /\ events[n + 1].ev = "seed"
             /\ events[n].site < events[n + 1].site
    /\ sgs_pc \in {"start", "sheets", "save"} =>
          /\ run_pc = "wait_sgs"
          /\ sgs_out = site_i
          /\ flow_pc \in {"idle", "exited"}
    /\ flow_pc \in {"start", "months"} =>
          /\ run_pc = "wait_flow"
          /\ flow_out = site_i
          /\ sgs_pc = "exited"
          /\ sgs_out = site_i
    /\ run_pc = "spawn_sgs" =>
          docs[site_i] = SeedDocument(sites[site_i].site, PersonOf(sites[site_i]),
                                      current_month, selected_year)
    /\ sgs_pc \in {"sheets", "save"} =>
          SubSeq(sgs_doc, 1, 5) = SeedDocument(sites[site_i].site, PersonOf(sites[site_i]),
                                               current_month, selected_year)
    /\ (flow_pc = "months" /\ run_pc = "wait_flow") =>
          /\ flow_peak = extract_peak_capacity(docs[site_i])
          /\ docs[site_i] = sgs_doc
          /\ SubSeq(flow_doc, 1, Len(sgs_doc)) = sgs_doc
    /\ run_pc \in {"gui", "sites", "spawn_sgs", "done"} =>
          /\ sgs_pc \in {"idle", "exited"}
          /\ flow_pc \in {"idle", "exited"}
    /\ \A n \in 1..Len(pdfs) :
          \E k \in 1..Len(events) :
              /\ events[k] = [site |-> pdfs[n].site, ev |-> "pdf"]
              /\ k > 1
              /\ events[k - 1] = [site |-> pdfs[n].site, ev |-> "flow_exit"]

\* witness: the batch is over with two sites processed one after the other, each
\* through all its steps, the second one starting after the first one's PDF export
C6_Witness ==
    /\ run_pc = "done"
    /\ Len(pdfs) = 2
    /\ \E n \in 1..(Len(events) - 1) :
          /\ events[n] = [site |-> 1, ev |-> "pdf"]
          /\ events[n + 1] = [site |-> 2, ev |-> "seed"]
    /\ \E n \in 1..Len(events) : events[n] = [site |-> 2, ev |-> "flow_sheets"]
    /\ \E n \in 1..Len(events) : events[n] = [site |-> 1, ev |-> "sgs_sheet"]

-----------------------------------------------------------------------------
(* C7 *)

\* C7: a call of table_then_two_graphs that skips its sheet, for any of the
\* reasons, leaves the document exactly as it was and changes neither any_done nor
\* first_section; each call starts from the document the previous call left; and
\* when the pass has exited, every eligible sheet up to and including the first
\* final/polisher effluent sheet has been through table_then_two_graphs, in
\* workbook order, and the saved document is the one the last call left.
C7_SkipIsHarmless ==
    LET eligible == {i \in 1..Len(sgs_wb) :
                        /\ \E key \in SGS_STAGE_KEYS \cup FINAL_KEYS :
                              Contains(Lower(sgs_wb[i].name), key)
                        /\ \A j \in 1..(i - 1) :
                              ~\E key \in FINAL_KEYS : Contains(Lower(sgs_wb[j].name), key)}
        header == <<PageBreak, Heading(<<"Appendix A: SGS Tables & Graphs">>, 1)>>
        seed == SeedDocument(NAME_SITE, NAME_PERSON, March, 2024)
    IN  /\ \A n \in 1..Len(sgs_results) :
              /\ sgs_results[n].scan.skip
                    \in {"", "no header row", "no date column", "no dates",
                         "empty window", "no columns"}
              /\ sgs_results[n].ok <=> sgs_results[n].scan.skip = ""
              /\ ~sgs_results[n].ok => sgs_results[n].after = sgs_results[n].before
              /\ sgs_results[n].ok =>
                    /\ Len(sgs_results[n].after) > Len(sgs_results[n].before)
                    /\ SubSeq(sgs_results[n].after, 1, Len(sgs_results[n].before))
                          = sgs_results[n].before
              /\ sgs_results[n].before =
                    IF n = 1 THEN seed \o header ELSE sgs_results[n - 1].after
              /\ sgs_results[n].i \in eligible
              /\ \A q \in 1..(n - 1) : sgs_results[q].i < sgs_results[n].i
        /\ (sgs_pc \in {"sheets", "save"} /\ Len(sgs_results) > 0) =>
              sgs_doc = sgs_results[Len(sgs_results)].after
        /\ (sgs_pc \in {"sheets", "save"}) =>
              /\ any_done = (\E n \in 1..Len(sgs_results) : sgs_results[n].ok)
              /\ first_section = ~any_done
        /\ sgs_pc = "exited" =>
              /\ {sgs_results[n].i : n \in 1..Len(sgs_results)} = eligible
              /\ docs[sgs_out] = sgs_doc
              /\ sgs_doc = IF Len(sgs_results) = 0
                           THEN seed \o header
                           ELSE sgs_results[Len(sgs_results)].after

\* witness: the pass has exited after skipping its first eligible sheet (no
\* header row) and writing the second; the saved document has the table
C7_Witness ==
    /\ sgs_pc = "exited"
    /\ Len(sgs_results) = 2
    /\ sgs_results[1].scan.skip = "no header row"
    /\ sgs_results[2].ok
    /\ \E b \in 1..Len(docs[sgs_out]) : docs[sgs_out][b].k = "table"

-----------------------------------------------------------------------------
(* C10 *)

\* C10: for every column other than the date column, with the header text
\* lower-cased and stripped of everything but letters and digits: the column is
\* discarded when that text is empty, is "date" or contains an exclusion keyword,
\* whatever group keywords it contains; otherwise it is in GroupA exactly when it
\* contains a GroupA keyword and in GroupB exactly when it contains a GroupB
\* keyword, and is discarded when it contains neither; a kept column also has a
\* number in the window.  "cBOD5 (mg/L)" is GroupA, "TKN" GroupB, "Units" discarded.
C10_ParameterClassification ==
    \A n \in 1..Len(sgs_results) :
        LET e  == sgs_results[n]
            ws == sgs_wb[e.i].ws
            hdr(c) == IF ws.rows[e.scan.param_row][c].t = "str"
                      THEN ws.rows[e.scan.param_row][c].s
                      ELSE IF ws.rows[e.scan.param_row][c].t = "num"
                      THEN StrOfNat(ws.rows[e.scan.param_row][c].v)
                      ELSE <<>>
            norm(c) == SelectSeq([i \in 1..Len(hdr(c)) |-> LowerChar(hdr(c)[i])],
                                 LAMBDA ch : IsLower(ch) \/ IsDigit(ch))
            has(c, keys) == \E key \in keys : Contains(norm(c), key)
            excluded(c) == \/ norm(c) = <<>>
                           \/ norm(c) = <<"d", "a", "t", "e">>
                           \/ has(c, EXCLUDE_HDR_WORDS)
            numeric(c) == \E i \in 1..Len(e.scan.inwin) :
                              ws.rows[e.scan.inwin[i].r][c].t = "num"
            kept == {e.scan.cols[j].c : j \in 1..Len(e.scan.cols)}
        IN  Len(e.scan.inwin) > 0 =>
              /\ \A c \in 1..Len(ws.rows[e.scan.param_row]) :
                    c # e.scan.date_col =>
                       /\ c \in kept <=>
                             /\ ~excluded(c)
                             /\ has(c, GROUP1_KEYS) \/ has(c, GROUP2_KEYS)
                             /\ numeric(c)
                       /\ \A j \in 1..Len(e.scan.cols) :
                             e.scan.cols[j].c = c =>
                                /\ e.scan.cols[j].g1 <=> has(c, GROUP1_KEYS)
                                /\ e.scan.cols[j].g2 <=> has(c, GROUP2_KEYS)
                       /\ (hdr(c) = TXT_CBOD5_MGL /\ numeric(c)) =>
                             \E j \in 1..Len(e.scan.cols) :
                                /\ e.scan.cols[j].c = c
                                /\ e.scan.cols[j].g1 /\ ~e.scan.cols[j].g2
                       /\ (hdr(c) = TXT_TKN /\ numeric(c)) =>
                             \E j \in 1..Len(e.scan.cols) :
                                /\ e.scan.cols[j].c = c
                                /\ e.scan.cols[j].g2 /\ ~e.scan.cols[j].g1
                       /\ hdr(c) = TXT_UNITS => c \notin kept
              /\ e.scan.date_col \notin kept
              /\ \A j \in 1..(Len(e.scan.cols) - 1) : e.scan.cols[j].c < e.scan.cols[j + 1].c

\* witness: a header made of "cBOD5 (mg/L)" followed by "Limit" sits over numeric
\* data and is discarded, while the TKN column of the same sheet is GroupB
C10_Witness ==
    \E n \in 1..Len(sgs_results) :
        /\ sgs_results[n].ok
        /\ sgs_wb[sgs_results[n].i].ws.rows[1][3] = StrV(TXT_CBOD5_MGL \o TXT_LIMIT)
        /\ \A j \in 1..Len(sgs_results[n].scan.cols) : sgs_results[n].scan.cols[j].c # 3
        /\ \E j \in 1..Len(sgs_results[n].scan.cols) :
              /\ sgs_results[n].scan.cols[j].c = 4
              /\ sgs_results[n].scan.cols[j].g2

-----------------------------------------------------------------------------
(* C8 *)

\* C8: whenever sheet_to_word_table writes a summary sentence, the count in it is
\* the number of dated data rows strictly between the Date header row and the
\* Average row whose value is strictly greater than the threshold: a value equal
\* to the threshold is not counted, and neither the Average row nor any other
\* row without a date is.
C8_ExceedanceCount ==
    \A n \in 1..Len(flow_results) :
        LET sc == flow_results[n].scan
            days == {i \in 1..Len(sc.points) :
                        /\ sc.points[i].r > sc.date_row
                        /\ sc.points[i].r < sc.avg_row
                        /\ sc.points[i].dt # NoneV}
        IN  (sc.skip = "" /\ sc.has_summary) =>
               sc.exceed_count =
                  Cardinality({i \in days : FloatLess(sc.peak.f, FloatOfInt(sc.points[i].fval))})

-----------------------------------------------------------------------------
(* C9 *)

\* C9: whenever a summary sentence is written for a whole-number threshold p and
\* n plotted values of sum s, the label is "well within" when s/n < 0.9 p,
\* "close to" when 0.9 p <= s/n <= p, and "above" when s/n > p (compared exactly,
\* as 10 s against 9 p n and s against p n), and it is one of the three labels.
C9_TwoFixedBands ==
    \A n \in 1..Len(flow_results) :
        LET sc == flow_results[n].scan
            p  == FloatTrunc(sc.peak.f)
            s  == SumValues(sc.plotted)
            cnt == Len(sc.plotted)
        IN  (sc.skip = "" /\ sc.has_summary /\ sc.peak.f = FloatOfInt(p)) =>
               /\ sc.avg_classification \in {WELL_WITHIN, CLOSE_TO, ABOVE}
               /\ (10 * s < 9 * p * cnt) <=> sc.avg_classification = WELL_WITHIN
               /\ (10 * s >= 9 * p * cnt /\ s <= p * cnt) <=> sc.avg_classification = CLOSE_TO
               /\ (s > p * cnt) <=> sc.avg_classification = ABOVE

-----------------------------------------------------------------------------
(* C16 *)

\* C16: moving a (year, month) by delta and then by -delta gives the (year, month)
\* back, for positive, zero and negative delta, and the month after each of the two
\* moves is one of 1..12.
C16_RoundTrip ==
    /\ ym_pc \in {"there", "back"} => ym_there.m \in 1..12
    /\ ym_pc = "back" =>
          /\ ym_back.m \in 1..12
          /\ ym_back = [y |-> ym_year, m |-> ym_month]

\* a negative delta that crosses a year boundary has been applied and undone
C16_Witness ==
    /\ ym_pc = "back"
    /\ ym_delta < 0
    /\ ym_there.y < ym_year
    /\ ym_back.y = ym_year

-----------------------------------------------------------------------------
(* C11 *)

G1_CAPTION == " - cBOD/BOD/TSS (Last 6 Months)"
G2_CAPTION == " - Nitrogen Species (Last 6 Months)"

\* the series of the chart with the given caption that a sheet added to the document,
\* <<>> when the sheet added no such chart
ChartSeries(e, caption) ==
    LET at == {k \in (Len(e.before) + 1)..Len(e.after) :
                  /\ e.after[k].k = "picture"
                  /\ e.after[k].title[Len(e.after[k].title)] = caption}
    IN  IF at = {} THEN <<>> ELSE e.after[CHOOSE k \in at : TRUE].series

\* the points of the series with the given label, <<>> when there is no such series
SeriesPoints(series, label) ==
    LET at == {k \in 1..Len(series) : series[k].label = label}
    IN  IF at = {} THEN <<>> ELSE series[CHOOSE k \in at : TRUE].pts

CountIn(seq, x) == Cardinality({k \in 1..Len(seq) : seq[k] = x})

SameBag(a, b) ==
    /\ Len(a) = Len(b)
    /\ \A k \in 1..Len(a) : CountIn(a, a[k]) = CountIn(b, a[k])

\* one point for every in-window row whose cell of column c coerces to a number
CoercedPoints(ws, inwin, c) ==
    [k \in 1..Len(SelectSeq(inwin, LAMBDA w : FloatOf(CellValue(ws, w.r, c)).ok)) |->
        [dt |-> SelectSeq(inwin, LAMBDA w : FloatOf(CellValue(ws, w.r, c)).ok)[k].dt,
         v |-> FloatOf(CellValue(ws,
                       SelectSeq(inwin, LAMBDA w : FloatOf(CellValue(ws, w.r, c)).ok)[k].r,
                       c)).val]]

\* the series of column col in the chart of one group holds exactly the coerced points
ColumnCharted(e, ws, col, caption) ==
    SameBag(SeriesPoints(ChartSeries(e, caption), col.label),
            CoercedPoints(ws, e.scan.inwin, col.c))

\* C11: every retained column holds a number in some in-window row; the series of
\* every retained column, in the chart of each group the column belongs to, has
\* exactly one point per in-window row whose cell coerces to a number and none for
\* an in-window row whose cell is empty or not numeric; and a sheet that has a
\* classified column with a number in the window is written, whatever its other cells.
C11_SeriesContents ==
    \A n \in 1..Len(sgs_results) :
        /\ sgs_results[n].ok =>
              \A j \in 1..Len(sgs_results[n].scan.cols) :
                  /\ \E k \in 1..Len(sgs_results[n].scan.inwin) :
                        CellValue(sgs_wb[sgs_results[n].i].ws, sgs_results[n].scan.inwin[k].r,
                                  sgs_results[n].scan.cols[j].c).t = "num"
                  /\ sgs_results[n].scan.cols[j].g1 =>
                        ColumnCharted(sgs_results[n], sgs_wb[sgs_results[n].i].ws,
                                      sgs_results[n].scan.cols[j], G1_CAPTION)
                  /\ sgs_results[n].scan.cols[j].g2 =>
                        ColumnCharted(sgs_results[n], sgs_wb[sgs_results[n].i].ws,
                                      sgs_results[n].scan.cols[j], G2_CAPTION)
        /\ sgs_results[n].scan.skip = "no columns" =>
              \A c \in 1..MaxColumn(sgs_wb[sgs_results[n].i].ws) :
                  (/\ c # sgs_results[n].scan.date_col
                   /\ ClassifyHeader(text(sgs_wb[sgs_results[n].i].ws,
                                          sgs_results[n].scan.param_row, c)).keep)
                  => \A k \in 1..Len(sgs_results[n].scan.inwin) :
                        CellValue(sgs_wb[sgs_results[n].i].ws, sgs_results[n].scan.inwin[k].r,
                                  c).t # "num"

-----------------------------------------------------------------------------
(* C12 *)

Ascending(pts) == \A a, b \in 1..Len(pts) : a < b => DtLeq(pts[a].dt, pts[b].dt)

\* the series handed to plot_series_to_doc for the columns of one group
HandedSeries(e, ws, in_group(_)) ==
    GroupSeries(ws, e.scan.inwin, SelectSeq(e.scan.cols, in_group), <<>>)

\* the charted series are the handed ones, label by label, with the same points
SamePoints(charted, handed) ==
    /\ Len(charted) = Len(handed)
    /\ \A k \in 1..Len(charted) :
          /\ charted[k].label = handed[k].label
          /\ SameBag(charted[k].pts, handed[k].pts)

ChartOrdered(charted, handed) ==
    /\ \A k \in 1..Len(charted) : Ascending(charted[k].pts)
    /\ SamePoints(charted, handed)

\* C12: in both charts of every written sheet the points of every series are in
\* ascending order of their timestamps, whatever the order of the worksheet's rows,
\* and each charted series has exactly the points of the series that was handed to
\* plot_series_to_doc: none added, none removed.
C12_SeriesOrdered ==
    \A n \in 1..Len(sgs_results) :
        sgs_results[n].ok =>
            /\ ChartOrdered(ChartSeries(sgs_results[n], G1_CAPTION),
                            HandedSeries(sgs_results[n], sgs_wb[sgs_results[n].i].ws,
                                         LAMBDA col : col.g1))
            /\ ChartOrdered(ChartSeries(sgs_results[n], G2_CAPTION),
                            HandedSeries(sgs_results[n], sgs_wb[sgs_results[n].i].ws,
                                         LAMBDA col : col.g2))

\* a sheet was written whose rows are out of order: a series of three or more points
\* was handed over with a later point before an earlier one
C12_Witness ==
    \E n \in 1..Len(sgs_results) :
        /\ sgs_results[n].ok
        /\ \E k \in 1..Len(HandedSeries(sgs_results[n], sgs_wb[sgs_results[n].i].ws,
                                         LAMBDA col : col.g1)) :
              /\ ~Ascending(HandedSeries(sgs_results[n], sgs_wb[sgs_results[n].i].ws,
                                         LAMBDA col : col.g1)[k].pts)
              /\ Len(ChartSeries(sgs_results[n], G1_CAPTION)[k].pts) >= 3

-----------------------------------------------------------------------------
(* C13 *)

\* the cell values the date normalizer has to reject: empty, blank, one of the
\* labels in any letter case, a text that no date format matches, a time of day
IsNonDateLabel(s) == Lower(Strip(s)) \in NON_DATE_LABELS

MatchesNoFormat(s) ==
    \A k \in 1..Len(DATE_PARSE_FORMATS) : strptime(Strip(s), DATE_PARSE_FORMATS[k]) = NoneV

NotADate(v) ==
    \/ v.t = "none"
    \/ v.t = "time"
    \/ v.t = "str" /\ (Strip(v.s) = <<>> \/ IsNonDateLabel(v.s) \/ MatchesNoFormat(v.s))

\* row r is one of the date-bearing rows of the scan
IsDatedRow(sc, r) == \E k \in 1..Len(sc.dated) : sc.dated[k].r = r

\* C13: in every sheet with a header row, parse_date_cell gives "no date" for every
\* cell of the date column that is empty, blank, a non-data label in any letter
\* case, a text no date format matches, or a time of day; the row of such a cell is
\* not among the date-bearing rows, and the rows below the meta rows whose date
\* cell is a datetime are all among them, so the sheet goes on.
C13_DateRejections ==
    \A n \in 1..Len(sgs_results) :
        sgs_results[n].scan.param_row # 0 =>
              \A r \in 1..MaxRow(sgs_wb[sgs_results[n].i].ws) :
                  /\ NotADate(CellValue(sgs_wb[sgs_results[n].i].ws, r,
                                        sgs_results[n].scan.date_col))
                     => /\ parse_date_cell(CellValue(sgs_wb[sgs_results[n].i].ws, r,
                                                     sgs_results[n].scan.date_col)) = NoneV
                        /\ ~IsDatedRow(sgs_results[n].scan, r)
                  /\ (/\ r > sgs_results[n].scan.param_row + 2
                      /\ CellValue(sgs_wb[sgs_results[n].i].ws, r,
                                   sgs_results[n].scan.date_col).t = "datetime")
                     => IsDatedRow(sgs_results[n].scan, r)

\* a written sheet with a label in capitals, or a time of day, in the date column
\* between two date-bearing rows
C13_Witness ==
    \E n \in 1..Len(sgs_results) :
        /\ sgs_results[n].ok
        /\ \E r \in 1..MaxRow(sgs_wb[sgs_results[n].i].ws) :
              /\ IsDatedRow(sgs_results[n].scan, r - 1)
              /\ IsDatedRow(sgs_results[n].scan, r + 1)
              /\ ~IsDatedRow(sgs_results[n].scan, r)
              /\ \/ CellValue(sgs_wb[sgs_results[n].i].ws, r,
                               sgs_results[n].scan.date_col).t = "time"
                 \/ /\ CellValue(sgs_wb[sgs_results[n].i].ws, r,
                                  sgs_results[n].scan.date_col).t = "str"
                    /\ IsNonDateLabel(CellValue(sgs_wb[sgs_results[n].i].ws, r,
                                         sgs_results[n].scan.date_col).s)
                    /\ CellValue(sgs_wb[sgs_results[n].i].ws, r,
                                 sgs_results[n].scan.date_col).s \notin NON_DATE_LABELS

-----------------------------------------------------------------------------
(* C14 *)

\* the cells of row r, among the first 80 columns, whose lower-cased text without
\* its non-alphanumerics contains a parameter keyword
KeywordCells(ws, r) ==
    {c \in 1..Min(MaxColumn(ws), 80) :
        \E key \in PARAM_KEYS : Contains(StripNonAlnum(Lower(text(ws, r, c))), key)}

IsHeaderLike(ws, r) == Cardinality(KeywordCells(ws, r)) >= 2

\* C14: when one of the first 80 rows of the worksheet has two or more keyword cells
\* among its first 80 columns, the header row found is such a row and no row above
\* it is; when none of the first 80 rows is, the header row is "not found".
C14_HeaderRow ==
    \A n \in 1..Len(sgs_results) :
        IF \E r \in 1..Min(MaxRow(sgs_wb[sgs_results[n].i].ws), 80) :
               IsHeaderLike(sgs_wb[sgs_results[n].i].ws, r)
        THEN /\ sgs_results[n].scan.param_row \in 1..Min(MaxRow(sgs_wb[sgs_results[n].i].ws), 80)
             /\ IsHeaderLike(sgs_wb[sgs_results[n].i].ws, sgs_results[n].scan.param_row)
             /\ \A q \in 1..(sgs_results[n].scan.param_row - 1) :
                   ~IsHeaderLike(sgs_wb[sgs_results[n].i].ws, q)
        ELSE sgs_results[n].scan.param_row = 0

\* the header row was found under a row with one keyword cell and above another row
\* with two or more
C14_Witness ==
    \E n \in 1..Len(sgs_results) :
        /\ sgs_results[n].scan.param_row > 1
        /\ Cardinality(KeywordCells(sgs_wb[sgs_results[n].i].ws,
                                    sgs_results[n].scan.param_row - 1)) = 1
        /\ \E q \in (sgs_results[n].scan.param_row + 1)..MaxRow(sgs_wb[sgs_results[n].i].ws) :
              IsHeaderLike(sgs_wb[sgs_results[n].i].ws, q)

-----------------------------------------------------------------------------
(* C15 *)

\* the cells of the scan window (60 rows by 60 columns) whose text contains "date"
DateWordCells(ws) ==
    {rc \in (1..Min(MaxRow(ws), 60)) \X (1..Min(MaxColumn(ws), 60)) :
        Contains(Lower(text(ws, rc[1], rc[2])), <<"d", "a", "t", "e">>)}

\* rc comes before q when the cells are read row by row, each row from the left
ScannedBefore(rc, q) == rc[1] < q[1] \/ (rc[1] = q[1] /\ rc[2] <= q[2])

\* the number of cells among the first 40 rows of column c that parse as a date
DateCount(ws, c) ==
    Cardinality({r \in 1..Min(MaxRow(ws), 40) :
                    parse_date_cell(CellValue(ws, r, c)).t = "datetime"})

\* C15: when a cell of the scan window contains "date", the date column found is the
\* column of the first such cell, reading row by row and each row from the left;
\* when none does, it is a scanned column with the highest count of cells that parse
\* as a date among its first 40 rows, and every column to its left has a lower count.
C15_DateColumn ==
    \A n \in 1..Len(sgs_results) :
        IF DateWordCells(sgs_wb[sgs_results[n].i].ws) # {}
        THEN \E rc \in DateWordCells(sgs_wb[sgs_results[n].i].ws) :
                /\ rc[2] = sgs_results[n].scan.date_col
                /\ \A q \in DateWordCells(sgs_wb[sgs_results[n].i].ws) : ScannedBefore(rc, q)
        ELSE /\ sgs_results[n].scan.date_col
                   \in 1..Min(MaxColumn(sgs_wb[sgs_results[n].i].ws), 60)
             /\ \A q \in 1..Min(MaxColumn(sgs_wb[sgs_results[n].i].ws), 60) :
                   DateCount(sgs_wb[sgs_results[n].i].ws, q)
                   <= DateCount(sgs_wb[sgs_results[n].i].ws, sgs_results[n].scan.date_col)
             /\ \A q \in 1..(sgs_results[n].scan.date_col - 1) :
                   DateCount(sgs_wb[sgs_results[n].i].ws, q)
                   < DateCount(sgs_wb[sgs_results[n].i].ws, sgs_results[n].scan.date_col)

\* no cell contains "date", and the column found shares the highest count, which is
\* not zero, with a column to its right and has a column of lower count to its left
C15_Witness ==
    \E n \in 1..Len(sgs_results) :
        /\ DateWordCells(sgs_wb[sgs_results[n].i].ws) = {}
        /\ sgs_results[n].scan.date_col > 1
        /\ DateCount(sgs_wb[sgs_results[n].i].ws, sgs_results[n].scan.date_col) > 0
        /\ \E q \in (sgs_results[n].scan.date_col + 1)..MaxColumn(sgs_wb[sgs_results[n].i].ws) :
              DateCount(sgs_wb[sgs_results[n].i].ws, q)
              = DateCount(sgs_wb[sgs_results[n].i].ws, sgs_results[n].scan.date_col)

-----------------------------------------------------------------------------
(* C17 *)

\* no cell of the scan window contains "date" and no cell of the worksheet parses
\* as a date
NoDateAnywhere(ws) ==
    /\ DateWordCells(ws) = {}
    /\ \A r \in 1..MaxRow(ws) : \A c \in 1..MaxColumn(ws) :
          parse_date_cell(CellValue(ws, r, c)).t # "datetime"

\* C17: for a worksheet in which no cell of the scan window contains "date" and no
\* cell parses as a date, no date column is found (absent, not a default column),
\* and the sheet is skipped where the header row and the date column are checked.
C17_AbsentDateColumn ==
    \A n \in 1..Len(sgs_results) :
        NoDateAnywhere(sgs_wb[sgs_results[n].i].ws) =>
            /\ sgs_results[n].scan.date_col = 0
            /\ ~sgs_results[n].ok
            /\ sgs_results[n].scan.skip \in {"no header row", "no date column"}

-----------------------------------------------------------------------------
(* C18 *)

SeriesLabels(series) == {series[k].label : k \in 1..Len(series)}

\* C18: every retained column of every written sheet is in exactly one of the two
\* groups, and the two charts of the sheet have no column in common.
C18_GroupExclusivity ==
    \A n \in 1..Len(sgs_results) :
        sgs_results[n].ok =>
            /\ \A j \in 1..Len(sgs_results[n].scan.cols) :
                  sgs_results[n].scan.cols[j].g1 # sgs_results[n].scan.cols[j].g2
            /\ SeriesLabels(ChartSeries(sgs_results[n], G1_CAPTION))
                \cap SeriesLabels(ChartSeries(sgs_results[n], G2_CAPTION)) = {}

====
